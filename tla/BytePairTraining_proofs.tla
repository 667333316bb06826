----------------------- MODULE BytePairTraining_proofs -----------------------
(***************************************************************************)
(* What holds of the tokenizer for every corpus, model file, text and      *)
(* size. The encoder: the tokens in the list always spell the text, no     *)
(* pair with a rank is missing from the queue, and what encode returns is  *)
(* what applying the merges rank by rank does.  The trainer: its corrected *)
(* counts are what counting again would give, so it merges the most        *)
(* frequent pair, and it cuts its articles as the encoder will.            *)
(* Generation: the answer and its window are what was asked for.           *)
(*                                                                         *)
(* The reference definitions are recursive functions.  What they compute   *)
(* is found by the least number at which a claim fails, and that they have *)
(* a value at all by RecursionWellDefined.                                 *)
(***************************************************************************)
EXTENDS BytePairTraining, SequenceTheorems, FiniteSetTheorems, WellFoundedInduction, TLAPS

Encoding == {"encode", "encoded", "generate", "generated"}

\* The model is whole at every point of the parse: a merge uses earlier tokens
\* and its token spells what they spell.
ModelInv ==
  /\ merges \in Seq(Nat \X Nat)
  /\ expansions \in Seq(Seq(Byte))
  /\ Len(expansions) = ByteCount + Len(merges)
  /\ \A t \in Byte : expansions[t + 1] = <<t>>
  /\ \A r \in 0 .. Len(merges) - 1 :
       /\ merges[r + 1] \in (0 .. ByteCount + r - 1) \X (0 .. ByteCount + r - 1)
       /\ expansions[ByteCount + r + 1] =
            expansions[merges[r + 1][1] + 1] \o expansions[merges[r + 1][2] + 1]

Known == 0 .. ByteCount + Len(merges) - 1
Places == Positions(Len(text))

ListTypes ==
  /\ text \in Seq(Byte)
  /\ token \in [Places -> Known]
  /\ previous \in [Places -> Places \union {End}]
  /\ next \in [Places -> Places \union {End, Consumed}]
  /\ candidates \subseteq (0 .. Len(merges) - 1) \X Places

\* What follows a live position is live, further right, and linked back to it.
Linked ==
  \A p \in Places : Live(p) /\ next[p] # End =>
    /\ next[p] > p
    /\ Live(next[p])
    /\ previous[next[p]] = p

Spelled ==
  \A p \in Places : Live(p) =>
    expansions[token[p] + 1] = SubSeq(text, p + 1, TileEnd(p))

EncoderInv ==
  pc \in Encoding =>
    /\ ListTypes
    /\ text # <<>> => Live(0)
    /\ Linked
    /\ Spelled

IInv == ModelInv /\ EncoderInv /\ NoMergeMissed

-----------------------------------------------------------------------------

LEMMA SubSeqOfOne ==
  ASSUME NEW S, NEW s \in Seq(S), NEW i \in 1 .. Len(s)
  PROVE  SubSeq(s, i, i) = <<s[i]>>
<1>1. s[i] \in S /\ i \in Int
  BY ElementOfSeq
<1>2. SubSeq(s, i, i) = SubSeq(s, i, i - 1) \o <<s[i]>>
  BY SubSeqRecursiveSecond
<1>3. SubSeq(s, i, i - 1) = <<>>
  BY <1>1, SubSeqEmpty
<1>4. <<s[i]>> \in Seq(S)
  BY <1>1
<1> QED
  BY <1>2, <1>3, <1>4, ConcatEmptySeq

\* A step that changes nothing the invariant speaks of.
LEMMA Unaffected ==
  ASSUME IInv, UNCHANGED <<modelVars, text, listVars, candidates>>,
         pc' \in Encoding => pc \in Encoding,
         pc' = "encode" => pc = "encode"
  PROVE  IInv'
<1>1. ModelInv'
  BY DEF IInv, ModelInv, modelVars
<1>2. EncoderInv'
  <2> USE DEF modelVars, listVars
  <2> SUFFICES ASSUME pc' \in Encoding
               PROVE  /\ ListTypes' /\ (text # <<>> => Live(0))' /\ Linked' /\ Spelled'
    BY DEF EncoderInv
  <2>1. ListTypes /\ (text # <<>> => Live(0)) /\ Linked /\ Spelled
    BY DEF IInv, EncoderInv
  <2>2. ListTypes'
    BY <2>1 DEF ListTypes, Places, Known
  <2>3. (text # <<>> => Live(0))' /\ Linked' /\ Spelled'
    BY <2>1 DEF Linked, Spelled, Live, TileEnd, Places
  <2> QED
    BY <2>2, <2>3
<1>3. NoMergeMissed'
  BY DEF IInv, NoMergeMissed, RankOf, PairAt, modelVars, listVars
<1> QED
  BY <1>1, <1>2, <1>3 DEF IInv

\* Outside the encoder only the model matters.
LEMMA OutsideEncoder ==
  ASSUME IInv, UNCHANGED modelVars, pc' \notin Encoding
  PROVE  IInv'
<1>1. ModelInv'
  BY DEF IInv, ModelInv, modelVars
<1> QED
  BY <1>1 DEF IInv, EncoderInv, NoMergeMissed, Encoding

-----------------------------------------------------------------------------

LEMMA InitSafe == Init => IInv
<1> SUFFICES ASSUME Init PROVE IInv
  OBVIOUS
<1> USE SizesAssumption
<1>1. merges = <<>> /\ Len(merges) = 0
  BY DEF Init
<1>0. merges \in Seq(Nat \X Nat)
  BY <1>1
<1>2. expansions \in Seq(Seq(Byte)) /\ Len(expansions) = ByteCount
  <2>1. \A t \in 1 .. ByteCount : <<t - 1>> \in Seq(Byte)
    BY DEF Byte
  <2> QED
    BY <2>1 DEF Init
<1>3. \A t \in Byte : expansions[t + 1] = <<t>>
  BY DEF Init, Byte
<1>4. ModelInv
  BY <1>0, <1>1, <1>2, <1>3 DEF ModelInv
<1> QED
  BY <1>4 DEF Init, IInv, EncoderInv, NoMergeMissed, Encoding

\* One pair of the model file.
LEMMA ParseSafe ==
  ASSUME IInv, Parse
  PROVE  IInv'
<1> USE SizesAssumption
<1>1. pc = "parse" /\ pc' \in {"parse", "rejected"}
  BY DEF Parse, ParseMerge
<1>2. CASE UNCHANGED modelVars
  BY <1>1, <1>2, OutsideEncoder DEF Encoding
<1>3. CASE ~UNCHANGED modelVars
  <2> DEFINE pair == file[Len(merges) + 1]
             whole == expansions[pair[1] + 1] \o expansions[pair[2] + 1]
  <2>1. /\ pair \in Known \X Known
        /\ merges' = Append(merges, pair)
        /\ expansions' = Append(expansions, whole)
    BY <1>3 DEF Parse, ParseMerge, Known
  <2>2. /\ ModelInv
        /\ merges \in Seq(Nat \X Nat) /\ Len(merges) \in Nat
        /\ expansions \in Seq(Seq(Byte)) /\ Len(expansions) = ByteCount + Len(merges)
    <3>1. ModelInv
      BY DEF IInv
    <3>2. Len(merges) \in Nat
      BY <3>1, LenProperties DEF ModelInv
    <3> QED
      BY <3>1, <3>2 DEF ModelInv
  <2>4. /\ pair \in Nat \X Nat
        /\ pair[1] + 1 \in 1 .. Len(expansions) /\ pair[2] + 1 \in 1 .. Len(expansions)
    <3>1. pair[1] \in Known /\ pair[2] \in Known /\ pair = <<pair[1], pair[2]>>
      BY <2>1
    <3> HIDE DEF pair
    <3> QED
      BY <2>2, <3>1 DEF Known
  <2> HIDE DEF pair
  <2>3. whole \in Seq(Byte)
    <3>1. expansions[pair[1] + 1] \in Seq(Byte) /\ expansions[pair[2] + 1] \in Seq(Byte)
      BY <2>2, <2>4, ElementOfSeq
    <3> QED
      BY <3>1, ConcatProperties
  <2> HIDE DEF pair, whole
  <2>5. /\ merges' \in Seq(Nat \X Nat) /\ Len(merges') = Len(merges) + 1
        /\ merges'[Len(merges) + 1] = pair
        /\ \A i \in 1 .. Len(merges) : merges'[i] = merges[i]
    BY <2>1, <2>2, <2>4, AppendProperties
  <2>6. /\ expansions' \in Seq(Seq(Byte)) /\ Len(expansions') = Len(expansions) + 1
        /\ expansions'[Len(expansions) + 1] = whole
        /\ \A i \in 1 .. Len(expansions) : expansions'[i] = expansions[i]
    BY <2>1, <2>2, <2>3, AppendProperties
  <2>7. ASSUME NEW t \in Byte PROVE expansions'[t + 1] = <<t>>
    <3>1. t + 1 \in 1 .. Len(expansions)
      BY <2>2 DEF Byte
    <3>2. expansions[t + 1] = <<t>>
      BY <2>2 DEF ModelInv
    <3> QED
      BY <2>6, <3>1, <3>2
  <2>8. ASSUME NEW r \in 0 .. Len(merges') - 1
        PROVE  /\ merges'[r + 1] \in (0 .. ByteCount + r - 1) \X (0 .. ByteCount + r - 1)
               /\ expansions'[ByteCount + r + 1] =
                    expansions'[merges'[r + 1][1] + 1] \o expansions'[merges'[r + 1][2] + 1]
    <3>1. CASE r < Len(merges)
      <4>1. merges'[r + 1] = merges[r + 1] /\ r \in 0 .. Len(merges) - 1
        <5>1. r + 1 \in 1 .. Len(merges) /\ r \in 0 .. Len(merges) - 1
          BY <2>2, <3>1
        <5> QED
          BY <2>5, <5>1
      <4>2. /\ merges[r + 1] \in (0 .. ByteCount + r - 1) \X (0 .. ByteCount + r - 1)
            /\ expansions[ByteCount + r + 1] =
                 expansions[merges[r + 1][1] + 1] \o expansions[merges[r + 1][2] + 1]
        BY <2>2, <4>1 DEF ModelInv
      <4>3. /\ ByteCount + r + 1 \in 1 .. Len(expansions)
            /\ merges[r + 1][1] + 1 \in 1 .. Len(expansions)
            /\ merges[r + 1][2] + 1 \in 1 .. Len(expansions)
        <5> DEFINE x == merges[r + 1][1]
                   y == merges[r + 1][2]
        <5>1. x \in 0 .. ByteCount + r - 1 /\ y \in 0 .. ByteCount + r - 1
          BY <4>2
        <5> HIDE DEF x, y
        <5>2. /\ ByteCount + r + 1 \in 1 .. Len(expansions)
              /\ x + 1 \in 1 .. Len(expansions) /\ y + 1 \in 1 .. Len(expansions)
          BY <2>2, <4>1, <5>1
        <5> QED
          BY <5>2 DEF x, y
      <4>4. /\ expansions'[ByteCount + r + 1] = expansions[ByteCount + r + 1]
            /\ expansions'[merges[r + 1][1] + 1] = expansions[merges[r + 1][1] + 1]
            /\ expansions'[merges[r + 1][2] + 1] = expansions[merges[r + 1][2] + 1]
        BY <2>6, <4>3
      <4> QED
        BY <4>1, <4>2, <4>4
    <3>2. CASE r = Len(merges)
      <4>1. merges'[r + 1] = pair
        BY <2>5, <3>2
      <4>2. pair \in (0 .. ByteCount + r - 1) \X (0 .. ByteCount + r - 1)
        BY <2>1, <3>2 DEF Known
      <4>3. expansions'[ByteCount + r + 1] = whole
        BY <2>2, <2>6, <3>2
      <4>4. whole = expansions'[pair[1] + 1] \o expansions'[pair[2] + 1]
        BY <2>4, <2>6 DEF whole
      <4> QED
        BY <4>1, <4>2, <4>3, <4>4
    <3>3. r < Len(merges) \/ r = Len(merges)
      <4>1. Len(merges') = Len(merges) + 1 /\ Len(merges) \in Nat
        BY <2>2, <2>5
      <4> QED
        BY <4>1
    <3> QED
      BY <3>1, <3>2, <3>3
  <2>9. Len(expansions') = ByteCount + Len(merges')
    BY <2>2, <2>5, <2>6
  <2>10. ModelInv'
    BY <2>5, <2>6, <2>7, <2>8, <2>9 DEF ModelInv
  <2> QED
    BY <1>1, <2>10 DEF IInv, EncoderInv, NoMergeMissed, Encoding
<1> QED
  BY <1>2, <1>3

\* A fresh list: one token for each byte, and a candidate for each pair with a rank.
LEMMA EncodeSafe ==
  ASSUME IInv, NEW bytes \in Seq(Byte), Encode(bytes)
  PROVE  IInv'
<1> USE SizesAssumption DEF End, Consumed
<1>1. /\ pc' = "encode" /\ text' = bytes
      /\ token' = FreshToken(bytes)
      /\ previous' = FreshPrevious(bytes, {Len(bytes) - 1})
      /\ next' = FreshNext(bytes, {Len(bytes) - 1})
      /\ candidates' = UNION {Enqueued(p, token', next') : p \in 0 .. Len(bytes) - 2}
      /\ UNCHANGED <<merges, expansions>>
  BY DEF Encode, modelVars
<1>2. ModelInv /\ ModelInv'
  BY <1>1 DEF IInv, ModelInv
<1>3. /\ Len(bytes) \in Nat
      /\ Len(merges) \in Nat
      /\ Places' = 0 .. Len(bytes) - 1
  BY <1>1, <1>2, LenProperties DEF ModelInv, Places, Positions
<1>4. \A p \in Places' :
        /\ token'[p] = bytes[p + 1] /\ bytes[p + 1] \in Byte
        /\ previous'[p] = IF p = 0 \/ p = Len(bytes) THEN End ELSE p - 1
        /\ next'[p] = IF p = Len(bytes) - 1 THEN End ELSE p + 1
  <2> SUFFICES ASSUME NEW p \in Places'
               PROVE  /\ token'[p] = bytes[p + 1] /\ bytes[p + 1] \in Byte
                      /\ previous'[p] = IF p = 0 \/ p = Len(bytes) THEN End ELSE p - 1
                      /\ next'[p] = IF p = Len(bytes) - 1 THEN End ELSE p + 1
    OBVIOUS
  <2>1. p + 1 \in 1 .. Len(bytes)
    BY <1>3
  <2>2. bytes[p + 1] \in Byte
    BY <2>1, ElementOfSeq
  <2> QED
    BY <1>1, <1>3, <2>2 DEF FreshToken, FreshPrevious, FreshNext, Positions
<1>5. DOMAIN token' = Places' /\ DOMAIN previous' = Places' /\ DOMAIN next' = Places'
  BY <1>1, <1>3 DEF FreshToken, FreshPrevious, FreshNext, Positions
<1>6. /\ token' \in [Places' -> Known']
      /\ previous' \in [Places' -> Places' \union {End}]
      /\ next' \in [Places' -> Places' \union {End, Consumed}]
  <2>1. Byte \subseteq Known'
    BY <1>1, <1>3 DEF Byte, Known
  <2>2. token' \in [Places' -> Known']
    BY <1>1, <1>3, <1>4, <2>1 DEF FreshToken, Positions
  <2>3. previous' \in [Places' -> Places' \union {End}]
    BY <1>1, <1>3, <1>4 DEF FreshPrevious, Positions
  <2>4. next' \in [Places' -> Places' \union {End, Consumed}]
    BY <1>1, <1>3, <1>4 DEF FreshNext, Positions
  <2> QED
    BY <2>2, <2>3, <2>4
<1>7. candidates' \subseteq (0 .. Len(merges') - 1) \X Places'
  BY <1>1, <1>3 DEF Enqueued, RankOf
<1>8. ListTypes'
  BY <1>1, <1>6, <1>7 DEF ListTypes
<1>9. (text # <<>> => Live(0))'
  <2> SUFFICES ASSUME bytes # <<>> PROVE Live(0)'
    BY <1>1
  <2>1. 0 \in Places'
    BY <1>3, EmptySeq
  <2> QED
    BY <1>3, <1>4, <1>5, <2>1 DEF Live
<1>10. Linked'
  <2> SUFFICES ASSUME NEW p \in Places', next'[p] # End
               PROVE  next'[p] > p /\ Live(next[p])' /\ previous'[next'[p]] = p
    BY DEF Linked
  <2>1. p # Len(bytes) - 1 /\ next'[p] = p + 1
    BY <1>4
  <2>2. p \in Nat /\ p + 1 \in Places' /\ p + 1 # 0 /\ p + 1 # Len(bytes)
    BY <1>3, <2>1
  <2>3. previous'[p + 1] = p
    BY <1>4, <2>2
  <2>4. next'[p + 1] # Consumed
    BY <1>4, <2>2
  <2> QED
    BY <1>5, <2>1, <2>2, <2>3, <2>4 DEF Live
<1>11. Spelled'
  <2> SUFFICES ASSUME NEW p \in Places'
               PROVE  expansions'[token'[p] + 1] = SubSeq(bytes, p + 1, TileEnd(p)')
    BY <1>1 DEF Spelled
  <2>1. TileEnd(p)' = p + 1
    <3>1. p \in 0 .. Len(bytes) - 1 /\ next'[p] = IF p = Len(bytes) - 1 THEN End ELSE p + 1
      BY <1>3, <1>4
    <3>2. TileEnd(p)' = IF next'[p] = End THEN Len(bytes) ELSE next'[p]
      BY <1>1 DEF TileEnd
    <3> QED
      BY <1>3, <3>1, <3>2
  <2>2. p + 1 \in 1 .. Len(bytes)
    BY <1>3
  <2>3. SubSeq(bytes, p + 1, p + 1) = <<bytes[p + 1]>>
    BY <1>3, <2>2, ElementOfSeq, SubSeqOfOne
  <2>4. expansions'[bytes[p + 1] + 1] = <<bytes[p + 1]>>
    BY <1>2, <1>4 DEF ModelInv
  <2> QED
    BY <1>4, <2>1, <2>3, <2>4
<1>12. NoMergeMissed'
  <2> SUFFICES ASSUME NEW p \in DOMAIN next', next'[p] >= 0,
                      NEW rank \in RankOf(PairAt(p))'
               PROVE  <<rank, p>> \in candidates'
    BY DEF NoMergeMissed
  <2>1. p \in 0 .. Len(bytes) - 2
    BY <1>3, <1>4, <1>5
  <2>2. <<rank, p>> \in Enqueued(p, token', next')
    <3>1. RankOf(PairAt(p))' = RankOf(<<token'[p], token'[next'[p]]>>)
      BY <1>1 DEF RankOf, PairAt
    <3>2. ~(p < 0) /\ ~(next'[p] < 0)
      BY <1>3, <1>4, <2>1
    <3>3. Enqueued(p, token', next') =
            {<<r, p>> : r \in RankOf(<<token'[p], token'[next'[p]]>>)}
      BY <1>1, <3>2 DEF Enqueued, RankOf
    <3> QED
      BY <3>1, <3>3
  <2> QED
    BY <1>1, <2>1, <2>2
<1> QED
  BY <1>2, <1>8, <1>9, <1>10, <1>11, <1>12 DEF IInv, EncoderInv

\* A stale entry is not the entry of any pair in the list.
LEMMA SkipSafe ==
  ASSUME IInv, SkipStale
  PROVE  IInv'
<1> USE DEF modelVars, listVars
<1>1. PICK candidate \in candidates :
        ~Fits(candidate) /\ candidates' = candidates \ {candidate}
  BY DEF SkipStale
<1>2. pc = "encode" /\ UNCHANGED <<pc, merges, expansions, text, token, previous, next>>
  BY DEF SkipStale
<1>3. ModelInv'
  BY <1>2 DEF IInv, ModelInv
<1>4. EncoderInv'
  <2>1. ListTypes /\ (text # <<>> => Live(0)) /\ Linked /\ Spelled
    BY <1>2 DEF IInv, EncoderInv, Encoding
  <2>2. ListTypes'
    BY <1>1, <1>2, <2>1 DEF ListTypes, Places, Known
  <2>3. (text # <<>> => Live(0))' /\ Linked' /\ Spelled'
    BY <1>2, <2>1 DEF Linked, Spelled, Live, TileEnd, Places
  <2> QED
    BY <2>2, <2>3 DEF EncoderInv
<1>5. NoMergeMissed'
  <2> SUFFICES ASSUME NEW p \in DOMAIN next, next[p] >= 0, NEW rank \in RankOf(PairAt(p))
               PROVE  <<rank, p>> \in candidates'
    BY <1>2 DEF NoMergeMissed, RankOf, PairAt
  <2>1. <<rank, p>> \in candidates
    BY <1>2 DEF IInv, NoMergeMissed
  <2>2. merges[rank + 1] = <<token[p], token[next[p]]>>
    BY DEF RankOf, PairAt
  <2>3. Fits(<<rank, p>>)
    BY <2>2 DEF Fits
  <2> QED
    BY <1>1, <2>1, <2>3
<1> QED
  BY <1>3, <1>4, <1>5 DEF IInv

\* The merge of a pair that is still in the list: the only links and tokens
\* that change are at its left position, at the position after it, and at the
\* right position, which is no longer live.
LEMMA MergeSafe ==
  ASSUME IInv, Merge
  PROVE  IInv'
<1> USE DEF End, Consumed
<1>1. PICK candidate \in candidates :
        /\ Fits(candidate)
        /\ token' = TokenAfter(candidate[2], ByteCount + candidate[1])
        /\ next' = NextAfter(candidate[2])
        /\ previous' = PreviousAfter(candidate[2])
        /\ candidates' = (candidates \ {candidate})
                           \union Enqueued(previous'[candidate[2]], token', next')
                           \union Enqueued(candidate[2], token', next')
  BY DEF Merge
<1>2. pc = "encode" /\ pc' = "encode" /\ UNCHANGED <<merges, expansions, text>>
  BY DEF Merge, modelVars
<1>3. /\ ModelInv /\ ModelInv' /\ NoMergeMissed
      /\ ListTypes /\ (text # <<>> => Live(0)) /\ Linked /\ Spelled
  BY <1>2 DEF IInv, EncoderInv, ModelInv, Encoding
<1> DEFINE rank == candidate[1]
           left == candidate[2]
           right == next[left]
           after == next[right]
<1>4. /\ rank \in 0 .. Len(merges) - 1
      /\ left \in Places
      /\ candidate = <<rank, left>>
      /\ Places = 0 .. Len(text) - 1
      /\ Places' = Places
      /\ Len(text) \in Nat /\ Len(merges) \in Nat
  BY <1>2, <1>3, LenProperties DEF ListTypes, ModelInv, Places, Positions
<1>5. /\ right >= 0
      /\ token[left] = merges[rank + 1][1]
      /\ token[right] = merges[rank + 1][2]
  BY <1>1 DEF Fits
<1>6. /\ token' = [token EXCEPT ![left] = ByteCount + rank]
      /\ next' = [next EXCEPT ![left] = after, ![right] = Consumed]
      /\ previous' = IF after >= 0 THEN [previous EXCEPT ![after] = left] ELSE previous
      /\ candidates' = (candidates \ {candidate})
                         \union Enqueued(previous'[left], token', next')
                         \union Enqueued(left, token', next')
  BY <1>1 DEF TokenAfter, NextAfter, PreviousAfter
<1> HIDE DEF rank, left, right, after
<1>7. /\ token \in [Places -> Known]
      /\ previous \in [Places -> Places \union {End}]
      /\ next \in [Places -> Places \union {End, Consumed}]
      /\ candidates \subseteq (0 .. Len(merges) - 1) \X Places
  BY <1>3 DEF ListTypes
<1>8. right \in Places /\ next[left] = right
  BY <1>4, <1>5, <1>7 DEF right
<1>9. /\ right > left /\ next[right] # Consumed /\ previous[right] = left
  BY <1>3, <1>4, <1>7, <1>8 DEF Linked, Live
<1>10. /\ after \in Places \union {End} /\ next[right] = after
       /\ after # End => after > right /\ next[after] # Consumed /\ previous[after] = right
  BY <1>3, <1>4, <1>7, <1>8, <1>9 DEF Linked, Live, after
<1>11. /\ DOMAIN next' = Places
       /\ next'[left] = after
       /\ next'[right] = Consumed
       /\ \A p \in Places \ {left, right} : next'[p] = next[p]
  BY <1>4, <1>6, <1>7, <1>8, <1>9
<1>12. \A p \in Places : next'[p] # Consumed <=> next[p] # Consumed /\ p # right
  BY <1>4, <1>8, <1>10, <1>11
<1>13. /\ token'[left] = ByteCount + rank
       /\ \A p \in Places \ {left} : token'[p] = token[p]
  BY <1>4, <1>6, <1>7
<1>14. /\ after # End => previous'[after] = left
       /\ \A p \in Places \ {after} : previous'[p] = previous[p]
  BY <1>4, <1>6, <1>7, <1>10
<1>15. ListTypes'
  <2>1. token' \in [Places -> Known]
    <3>1. ByteCount + rank \in Known
      BY <1>4, SizesAssumption DEF Known
    <3> QED
      BY <1>4, <1>6, <1>7, <3>1
  <2>2. previous' \in [Places -> Places \union {End}]
    BY <1>4, <1>6, <1>7, <1>10
  <2>3. next' \in [Places -> Places \union {End, Consumed}]
    BY <1>4, <1>6, <1>7, <1>8, <1>10
  <2>4. ASSUME NEW p \in Places \union {End}
        PROVE  Enqueued(p, token', next') \subseteq (0 .. Len(merges) - 1) \X Places
    <3>1. CASE p < 0 \/ next'[p] < 0
      BY <3>1 DEF Enqueued
    <3>2. CASE ~(p < 0 \/ next'[p] < 0)
      <4>1. p \in Places
        BY <1>4, <3>2
      <4>2. RankOf(<<token'[p], token'[next'[p]]>>) \subseteq 0 .. Len(merges) - 1
        BY DEF RankOf
      <4> QED
        BY <3>2, <4>1, <4>2 DEF Enqueued
    <3> QED
      BY <3>1, <3>2
  <2>5. candidates' \subseteq (0 .. Len(merges) - 1) \X Places
    <3>1. previous'[left] \in Places \union {End}
      BY <1>4, <2>2
    <3> QED
      BY <1>4, <1>6, <1>7, <2>4, <3>1
  <2> QED
    BY <1>2, <1>3, <1>4, <2>1, <2>2, <2>3, <2>5 DEF ListTypes, Known
<1>16. (text # <<>> => Live(0))'
  <2> SUFFICES ASSUME text # <<>> PROVE 0 \in Places /\ next'[0] # Consumed
    BY <1>2, <1>11 DEF Live
  <2>1. 0 \in Places /\ next[0] # Consumed
    BY <1>3, <1>7 DEF Live
  <2>2. 0 # right
    BY <1>4, <1>9
  <2> QED
    BY <1>12, <2>1, <2>2
<1>17. Linked'
  <2> SUFFICES ASSUME NEW p \in Places, next'[p] # Consumed, next'[p] # End
               PROVE  /\ next'[p] > p
                      /\ next'[p] \in Places /\ next'[next'[p]] # Consumed
                      /\ previous'[next'[p]] = p
    BY <1>4, <1>11 DEF Linked, Live
  <2>1. p # right /\ next[p] # Consumed
    BY <1>12
  <2>2. CASE p = left
    <3>1. next'[p] = after /\ after # End /\ after \in Places /\ after > right
      BY <1>10, <1>11, <2>2
    <3>2. after > left /\ next'[after] # Consumed
      BY <1>4, <1>8, <1>9, <1>10, <1>12, <3>1
    <3> QED
      BY <1>14, <2>2, <3>1, <3>2
  <2>3. CASE p # left
    <3>1. next'[p] = next[p] /\ next[p] # End
      BY <1>11, <2>1, <2>3
    <3>2. /\ next[p] > p
          /\ next[p] \in Places /\ next[next[p]] # Consumed
          /\ previous[next[p]] = p
      BY <1>3, <1>7, <2>1, <3>1 DEF Linked, Live
    <3>3. next[p] # right
      BY <1>9, <2>3, <3>2
    <3>4. next[p] # after
      BY <1>10, <2>1, <3>1, <3>2
    <3> QED
      BY <1>12, <1>14, <3>1, <3>2, <3>3, <3>4
  <2> QED
    BY <2>2, <2>3
<1>18. Spelled'
  <2> SUFFICES ASSUME NEW p \in Places, next'[p] # Consumed
               PROVE  expansions[token'[p] + 1] =
                        SubSeq(text, p + 1, IF next'[p] = End THEN Len(text) ELSE next'[p])
    BY <1>2, <1>4, <1>11 DEF Spelled, Live, TileEnd
  <2>1. p # right /\ next[p] # Consumed
    BY <1>12
  <2>2. \A q \in Places : next[q] # Consumed =>
          expansions[token[q] + 1] =
            SubSeq(text, q + 1, IF next[q] = End THEN Len(text) ELSE next[q])
    BY <1>3, <1>7 DEF Spelled, Live, TileEnd
  <2>3. CASE p # left
    BY <1>11, <1>13, <2>1, <2>2, <2>3
  <2>4. CASE p = left
    <3> DEFINE end == IF after = End THEN Len(text) ELSE after
    <3>1. expansions[ByteCount + rank + 1] =
            expansions[token[left] + 1] \o expansions[token[right] + 1]
      BY <1>3, <1>4, <1>5 DEF ModelInv
    <3>2. expansions[token[left] + 1] = SubSeq(text, left + 1, right)
      <4>1. right # End /\ right # Consumed
        BY <1>5
      <4> QED
        BY <1>4, <1>8, <2>2, <4>1
    <3>3. expansions[token[right] + 1] = SubSeq(text, right + 1, end)
      BY <1>8, <1>9, <1>10, <2>2
    <3>4. SubSeq(text, left + 1, right) \o SubSeq(text, right + 1, end)
            = SubSeq(text, left + 1, end)
      <4>1. /\ left + 1 \in 1 .. Len(text) + 1
            /\ right \in (left + 1) - 1 .. Len(text)
            /\ end \in right .. Len(text)
        BY <1>4, <1>8, <1>9, <1>10
      <4>2. text \in Seq(Byte)
        BY <1>3 DEF ListTypes
      <4> HIDE DEF end
      <4> QED
        BY <4>1, <4>2, ConcatAdjacentSubSeq
    <3> QED
      BY <1>11, <1>13, <2>4, <3>1, <3>2, <3>3, <3>4
  <2> QED
    BY <2>3, <2>4
<1>19. NoMergeMissed'
  <2> SUFFICES ASSUME NEW p \in Places, next'[p] >= 0,
                      NEW r \in RankOf(<<token'[p], token'[next'[p]]>>)
               PROVE  <<r, p>> \in candidates'
    BY <1>2, <1>11 DEF NoMergeMissed, RankOf, PairAt
  <2>1. next'[p] # Consumed /\ next'[p] # End
    OBVIOUS
  <2>2. p # right /\ next[p] # Consumed
    BY <1>12, <2>1
  <2>3. <<r, p>> \in Enqueued(p, token', next')
    <3>1. ~(p < 0) /\ ~(next'[p] < 0)
      <4>1. next'[p] \in Places \union {End, Consumed}
        BY <1>7, <1>8, <1>10, <1>11
      <4> QED
        BY <1>4, <4>1
    <3> QED
      BY <3>1 DEF Enqueued
  <2>4. CASE p = left
    BY <1>6, <2>3, <2>4
  <2>5. CASE p # left
    <3>1. next'[p] = next[p] /\ next[p] # right
      <4>1. next'[p] = next[p]
        BY <1>11, <2>2, <2>5
      <4>2. previous[next[p]] = p
        BY <1>3, <1>7, <2>1, <2>2, <4>1 DEF Linked, Live
      <4> QED
        BY <1>9, <2>5, <4>1, <4>2
    <3>2. CASE next[p] = left
      <4>1. previous[left] = p
        BY <1>3, <1>7, <2>1, <2>2, <3>1, <3>2 DEF Linked, Live
      <4>2. previous'[left] = p
        BY <1>4, <1>8, <1>9, <1>10, <1>14, <4>1
      <4>3. \A q : q = previous'[left] => Enqueued(q, token', next') \subseteq candidates'
        BY <1>6
      <4> QED
        BY <2>3, <4>2, <4>3
    <3>3. CASE next[p] # left
      <4>1. token'[p] = token[p] /\ token'[next'[p]] = token[next[p]]
        <5>1. next[p] \in Places
          BY <1>7, <2>1, <3>1
        <5> QED
          BY <1>13, <2>5, <3>1, <3>3, <5>1
      <4>2. r \in RankOf(PairAt(p)) /\ next[p] >= 0
        BY <3>1, <4>1 DEF PairAt
      <4>3. <<r, p>> \in candidates
        BY <1>2, <1>3, <1>7, <4>2 DEF NoMergeMissed
      <4>4. <<r, p>> # candidate
        BY <1>4, <2>5
      <4> QED
        BY <1>6, <4>3, <4>4
    <3> QED
      BY <3>2, <3>3
  <2> QED
    BY <2>4, <2>5
<1> QED
  BY <1>2, <1>3, <1>15, <1>16, <1>17, <1>18, <1>19 DEF IInv, EncoderInv

-----------------------------------------------------------------------------

\* Only texts are articles.
ArticlesInv == articles \in Seq(Seq(Byte) \ {<<>>})

LEMMA ArticlesTyped == Spec => []ArticlesInv
<1>1. Init => ArticlesInv
  BY DEF Init, ArticlesInv
<1>2. ArticlesInv /\ [Next]_vars => ArticlesInv'
  <2> SUFFICES ASSUME ArticlesInv, [Next]_vars PROVE ArticlesInv'
    OBVIOUS
  <2>1. CASE StartTraining
    BY <2>1, TextsAssumption DEF StartTraining, ArticlesInv
  <2>2. CASE UNCHANGED articles
    BY <2>2 DEF ArticlesInv
  <2> QED
    BY <2>1, <2>2 DEF Next, vars, trainerVars, CountPairs, DropOutdated, SelectPair, NoPairLeft,
       MergeOccurrence, FinishMerge, GivenFile, Parse, Parsed, EncodeText, EncodeStep, Generate
<1> QED
  BY <1>1, <1>2, PTL DEF Spec

LEMMA StepSafe ==
  ASSUME IInv, ArticlesInv, [Next]_vars
  PROVE  IInv'
<1>1. CASE StartTraining \/ CountPairs \/ SelectPair \/ NoPairLeft \/ MergeOccurrence
             \/ FinishMerge \/ GivenFile
  <2>1. UNCHANGED modelVars /\ pc' \notin Encoding
    BY <1>1 DEF StartTraining, CountPairs, SelectPair, NoPairLeft, MergeOccurrence,
       FinishMerge, GivenFile, Encoding
  <2> QED
    BY <2>1, OutsideEncoder
<1>2. CASE DropOutdated \/ Parsed
  <2>1. UNCHANGED modelVars /\ pc' \notin Encoding
    BY <1>2 DEF DropOutdated, Parsed, encodingVars, Encoding
  <2> QED
    BY <2>1, OutsideEncoder
<1>3. CASE Parse
  BY <1>3, ParseSafe
<1>4. CASE \E bytes \in OtherTexts \union Range(articles) : EncodeText(bytes)
  <2>1. PICK bytes \in OtherTexts \union Range(articles) : Encode(bytes)
    BY <1>4 DEF EncodeText
  <2>2. bytes \in Seq(Byte)
    <3>1. \A i \in DOMAIN articles : articles[i] \in Seq(Byte)
      BY ElementOfSeq, LenProperties DEF ArticlesInv
    <3> QED
      BY <2>1, <3>1, TextsAssumption DEF Range
  <2> QED
    BY <2>1, <2>2, EncodeSafe
<1>5. CASE EncodeStep
  <2>1. CASE SkipStale
    BY <2>1, SkipSafe
  <2>2. CASE Merge
    BY <2>2, MergeSafe
  <2>3. CASE Collect
    <3>1. /\ UNCHANGED <<modelVars, text, listVars, candidates>>
          /\ pc = "encode" /\ pc' = "encoded"
      BY <2>3 DEF Collect
    <3> QED
      BY <3>1, Unaffected DEF Encoding
  <2> QED
    BY <1>5, <2>1, <2>2, <2>3 DEF EncodeStep
<1>6. CASE Generate
  <2>1. /\ UNCHANGED <<modelVars, text, listVars, candidates>>
        /\ pc \in Encoding /\ pc' \in {"generate", "generated", "failed"}
    BY <1>6 DEF Generate, StartGeneration, GenerateToken, StepFails, StepsExhausted, Encoding
  <2> QED
    BY <2>1, Unaffected
<1>7. CASE UNCHANGED vars
  <2>1. UNCHANGED <<pc, modelVars, text, listVars, candidates>>
    BY <1>7 DEF vars, encodingVars
  <2> QED
    BY <2>1, Unaffected
<1> QED
  BY <1>1, <1>2, <1>3, <1>4, <1>5, <1>6, <1>7 DEF Next

LEMMA EncoderSafe == Spec => []IInv
<1>1. Init => IInv
  BY InitSafe
<1>2. IInv /\ ArticlesInv /\ [Next]_vars => IInv'
  BY StepSafe
<1> QED
  BY <1>1, <1>2, ArticlesTyped, PTL DEF Spec

\* The tokens in the list spell the text at every point of every encode, for
\* every model file that parses: a candidate that has gone stale never merges
\* what is no longer there (Model::encode).
THEOREM TextNeverLost == Spec => []TokensSpellText
<1>1. IInv => TokensSpellText
  <2> SUFFICES ASSUME IInv, pc \in Encoding PROVE TokensSpellText
    BY DEF TokensSpellText, Encoding
  <2>1. ListTypes /\ (text # <<>> => Live(0)) /\ Linked /\ Spelled
    BY DEF IInv, EncoderInv
  <2>2. DOMAIN next = Places /\ Places = 0 .. Len(text) - 1 /\ Len(text) \in Nat
    BY <2>1, LenProperties DEF ListTypes, Places, Positions
  <2>3. ASSUME NEW p \in Places, Live(p)
        PROVE  TileEnd(p) > p /\ (next[p] # End => Live(next[p]))
    BY <2>1, <2>2, <2>3 DEF Linked, TileEnd
  <2> QED
    BY <2>1, <2>2, <2>3 DEF TokensSpellText, Spelled
<1> QED
  BY <1>1, EncoderSafe, PTL

\* No pair with a rank is ever missing from the queue (Model::encode).
THEOREM QueueComplete == Spec => []NoMergeMissed
<1>1. IInv => NoMergeMissed
  BY DEF IInv
<1> QED
  BY <1>1, EncoderSafe, PTL

\* When encoding ends, no two neighbouring tokens could still be merged.
EncodingIsMaximal ==
  [][pc = "encode" /\ pc' = "encoded" =>
       \A p \in DOMAIN next : next[p] >= 0 => RankOf(PairAt(p)) = {}]_vars

\* The result of encode leaves no merge of the model undone.
THEOREM EncodingMaximal == Spec => EncodingIsMaximal
<1>1. NoMergeMissed /\ [Next]_vars =>
        [pc = "encode" /\ pc' = "encoded" =>
           \A p \in DOMAIN next : next[p] >= 0 => RankOf(PairAt(p)) = {}]_vars
  <2> SUFFICES ASSUME NoMergeMissed, Next, pc = "encode", pc' = "encoded"
               PROVE  \A p \in DOMAIN next : next[p] >= 0 => RankOf(PairAt(p)) = {}
    OBVIOUS
  <2>1. candidates = {}
    BY DEF Next, StartTraining, CountPairs, DropOutdated, SelectPair, NoPairLeft,
       MergeOccurrence, FinishMerge, GivenFile, Parse, Parsed, EncodeText, Encode, EncodeStep,
       SkipStale, Merge, Collect, Generate, StartGeneration, GenerateToken, StepFails, StepsExhausted
  <2> QED
    BY <2>1 DEF NoMergeMissed
<1> QED
  BY <1>1, QueueComplete, PTL DEF Spec, EncodingIsMaximal

-----------------------------------------------------------------------------
(* Recursive definitions. *)

\* A nonempty set of natural numbers has a least element.
LEMMA LeastNat ==
  ASSUME NEW T \in SUBSET Nat, T # {}
  PROVE  \E m \in T : \A k \in T : m <= k
<1>1. PICK m \in T : \A k \in T : <<k, m>> \notin OpToRel(<, Nat)
  BY WFMin, NatLessThanWellFounded, Zenon
<1>2. \A k \in T : ~(k < m)
  BY <1>1, Zenon DEF OpToRel
<1> QED
  BY <1>2

\* Induction up to n, over the set of the numbers it has been shown for.
LEMMA UpTo ==
  ASSUME NEW n \in Nat, NEW T, 0 \in T, \A i \in 1..n : i - 1 \in T => i \in T
  PROVE  0..n \subseteq T
<1> DEFINE Wrong == {i \in 0..n : i \notin T}
<1> SUFFICES ASSUME Wrong # {} PROVE FALSE
  OBVIOUS
<1>1. Wrong \in SUBSET Nat
  OBVIOUS
<1>2. PICK m \in Wrong : \A k \in Wrong : m <= k
  BY <1>1, LeastNat
<1>3. m \in 0..n /\ m \notin T /\ m # 0
  BY <1>2
<1>4. m \in 1..n /\ m - 1 \in 0..n /\ m - 1 < m
  BY <1>3
<1>5. m - 1 \in T
  BY <1>2, <1>4
<1> QED BY <1>3, <1>4, <1>5

\* What `body' makes of a function at an argument depends on the function's
\* values at arguments of a smaller rank only, and the ranks are bounded.
Recursive(D, S, n, rank, body) ==
  /\ n \in Nat /\ rank \in [D -> 0..n] /\ S # {}
  /\ body \in [[D -> S] -> [D -> S]]
  /\ \A g, h \in [D -> S] : \A d \in D :
       (\A e \in D : rank[e] < rank[d] => g[e] = h[e]) => body[g][d] = body[h][d]

\* Then there is a function that is what `body' makes of it: the equation of a
\* recursive definition has a solution.
LEMMA RecursionWellDefined ==
  ASSUME NEW D, NEW S, NEW n, NEW rank, NEW body, Recursive(D, S, n, rank, body)
  PROVE  \E f \in [D -> S] : f = body[f]
<1>0. /\ n \in Nat /\ rank \in [D -> 0..n] /\ S # {}
      /\ body \in [[D -> S] -> [D -> S]]
  BY DEF Recursive
<1> DEFINE Right(m) == \E f \in [D -> S] : \A d \in D : rank[d] < m => f[d] = body[f][d]
           Wrong == {m \in Nat : ~Right(m)}
<1>1. Wrong = {}
  <2> SUFFICES ASSUME Wrong # {} PROVE FALSE
    OBVIOUS
  <2>1. PICK m \in Wrong : \A k \in Wrong : m <= k
    <3> HIDE DEF Right
    <3>1. Wrong \in SUBSET Nat
      OBVIOUS
    <3> HIDE DEF Wrong
    <3> QED BY <3>1, LeastNat
  <2>0. m \in Nat
    OBVIOUS
  <2>2. m # 0
    <3>1. Right(0)
      <4>1. \A d \in D : ~(rank[d] < 0)
        BY <1>0
      <4>2. PICK s \in S : TRUE
        BY <1>0
      <4>3. [d \in D |-> s] \in [D -> S]
        OBVIOUS
      <4> QED BY <4>1, <4>3
    <3> QED BY <3>1
  <2>3. Right(m - 1)
    <3>1. m - 1 \in Nat /\ m - 1 < m
      BY <2>2
    <3> HIDE DEF Right
    <3> QED BY <2>1, <3>1
  <2>4. PICK f \in [D -> S] : \A d \in D : rank[d] < m - 1 => f[d] = body[f][d]
    BY <2>3
  <2> DEFINE g == [d \in D |-> IF rank[d] = m - 1 THEN body[f][d] ELSE f[d]]
  <2>5. g \in [D -> S]
    <3>1. body[f] \in [D -> S]
      BY <1>0
    <3> QED BY <3>1
  <2>6. \A d \in D : rank[d] < m - 1 => g[d] = f[d]
    OBVIOUS
  <2>7. \A d \in D : rank[d] = m - 1 => g[d] = body[f][d]
    OBVIOUS
  <2> HIDE DEF g
  <2>8. ASSUME NEW d \in D, rank[d] < m PROVE g[d] = body[g][d]
    <3>1. rank[d] \in Nat /\ \A e \in D : rank[e] \in Nat
      BY <1>0
    <3>2. \A e \in D : rank[e] < rank[d] => g[e] = f[e]
      BY <2>6, <2>8, <3>1
    <3>3. body[g][d] = body[f][d]
      BY <2>5, <3>2 DEF Recursive
    <3>4. \A a, b \in Nat : a < b => a < b - 1 \/ a = b - 1
      BY ONLY 0 < 1
    <3>5. rank[d] < m - 1 \/ rank[d] = m - 1
      BY <2>0, <2>8, <3>1, <3>4, Zenon
    <3> QED BY <2>4, <2>6, <2>7, <3>3, <3>5
  <2>9. Right(m)
    BY <2>5, <2>8
  <2> QED BY <2>9
<1>2. Right(n + 1)
  <2>1. n + 1 \in Nat
    BY <1>0
  <2> HIDE DEF Right
  <2> QED BY <1>1, <2>1
<1>3. PICK f \in [D -> S] : \A d \in D : rank[d] < n + 1 => f[d] = body[f][d]
  BY <1>2
<1>4. \A d \in D : rank[d] < n + 1
  BY <1>0
<1>5. body[f] \in [D -> S]
  BY <1>0
<1> QED BY <1>3, <1>4, <1>5


\* The recursive definition of FlattenSeq has a solution, and is it.
IsFlattening(f, seqs) ==
  /\ f[1] = seqs[1]
  /\ \A i \in 2 .. Len(seqs) : f[i] = f[i - 1] \o seqs[i]

LEMMA FlattenExists ==
  ASSUME NEW S, NEW seqs \in Seq(Seq(S)), Len(seqs) > 0
  PROVE  \E f \in [1 .. Len(seqs) -> Seq(S)] :
           IsFlattening(f, seqs) /\ FlattenSeq(seqs) = f[Len(seqs)]
<1> DEFINE D == 1 .. Len(seqs)
           one(f, i) == IF i = 1 THEN seqs[i] ELSE f[i - 1] \o seqs[i]
           body == [f \in [D -> Seq(S)] |-> [i \in D |-> one(f, i)]]
           rank == [i \in D |-> i]
<1>1. Len(seqs) \in Nat /\ \A i \in D : seqs[i] \in Seq(S)
  BY ElementOfSeq, LenProperties
<1>2. <<>> \in Seq(S)
  OBVIOUS
<1>3. ASSUME NEW f \in [D -> Seq(S)], NEW i \in D PROVE one(f, i) \in Seq(S)
  <2>1. CASE i = 1
    BY <1>1, <2>1
  <2>2. CASE i # 1
    <3>1. i - 1 \in D
      BY <1>1, <2>2
    <3> QED BY <1>1, <2>2, <3>1, ConcatProperties
  <2> QED BY <2>1, <2>2
<1>4. body \in [[D -> Seq(S)] -> [D -> Seq(S)]]
  BY <1>3
<1>6. rank \in [D -> 0..Len(seqs)]
  OBVIOUS
<1>7. ASSUME NEW g \in [D -> Seq(S)], NEW h \in [D -> Seq(S)], NEW d \in D,
             \A e \in D : rank[e] < rank[d] => g[e] = h[e]
      PROVE  body[g][d] = body[h][d]
  <2>1. one(g, d) = one(h, d)
    <3>1. CASE d = 1
      BY <3>1
    <3>2. CASE d # 1
      <4>1. d - 1 \in D /\ d - 1 < d
        BY <1>1, <3>2
      <4>2. g[d - 1] = h[d - 1]
        BY <1>7, <4>1
      <4> QED BY <3>2, <4>2
    <3> QED BY <3>1, <3>2
  <2> QED BY <2>1
<1>8. Recursive(D, Seq(S), Len(seqs), rank, body)
  <2> HIDE DEF D, body, rank
  <2> QED BY <1>1, <1>2, <1>4, <1>6, <1>7 DEF Recursive
<1>9. \E f \in [D -> Seq(S)] : f = body[f]
  <2> HIDE DEF D, body, rank
  <2> QED BY <1>8, RecursionWellDefined
<1>10. PICK f \in [D -> Seq(S)] : f = [i \in D |-> one(f, i)]
  <2> HIDE DEF D, one
  <2> QED BY <1>9
<1> DEFINE flatten == CHOOSE g : g = [i \in D |-> one(g, i)]
<1>11. flatten = [i \in D |-> one(flatten, i)]
  <2> HIDE DEF D, one
  <2> QED BY <1>10
<1>12. FlattenSeq(seqs) = flatten[Len(seqs)]
  BY DEF FlattenSeq
<1> HIDE DEF flatten, one
<1>13. \A i \in D : flatten[i] = one(flatten, i)
  BY <1>11
<1>14. \A i \in D : f[i] = one(f, i)
  BY <1>10
<1>17. \A h : one(h, 1) = seqs[1] /\ \A i \in D : i # 1 => one(h, i) = h[i - 1] \o seqs[i]
  BY DEF one
<1>15. \A i \in D : flatten[i] = f[i]
  <2> DEFINE T == {i \in 0 .. Len(seqs) : i = 0 \/ flatten[i] = f[i]}
  <2>1. 0 \in T
    BY <1>1
  <2>2. ASSUME NEW i \in 1 .. Len(seqs), i - 1 \in T PROVE i \in T
    <3>1. i \in D /\ i \in 0 .. Len(seqs) /\ (i - 1 = 0 \/ flatten[i - 1] = f[i - 1])
      BY <1>1, <2>2
    <3>2. i # 1 => flatten[i - 1] = f[i - 1]
      BY <3>1
    <3>3. one(flatten, i) = one(f, i)
      BY <1>17, <3>1, <3>2
    <3>4. flatten[i] = f[i]
      BY <1>13, <1>14, <3>1, <3>3
    <3> QED BY <3>1, <3>4
  <2>3. 0 .. Len(seqs) \subseteq T
    <3> HIDE DEF T
    <3> QED BY <1>1, <2>1, <2>2, UpTo
  <2>4. \A i \in D : i \in 0 .. Len(seqs) /\ i # 0
    BY <1>1
  <2> QED BY <2>3, <2>4
<1>16. IsFlattening(f, seqs)
  <2>1. f[1] = seqs[1]
    <3>1. 1 \in D
      BY <1>1
    <3> QED BY <1>14, <1>17, <3>1
  <2>2. ASSUME NEW i \in 2 .. Len(seqs) PROVE f[i] = f[i - 1] \o seqs[i]
    <3>1. i \in D /\ i # 1
      BY <1>1
    <3> QED BY <1>14, <1>17, <3>1
  <2> QED BY <2>1, <2>2 DEF IsFlattening
<1> QED BY <1>1, <1>12, <1>15, <1>16

\* Nothing flattens to nothing, and a sequence of sequences to a sequence.
LEMMA FlattenType ==
  ASSUME NEW S, NEW seqs \in Seq(Seq(S))
  PROVE  FlattenSeq(seqs) \in Seq(S) /\ FlattenSeq(<<>>) = <<>>
<1>1. FlattenSeq(<<>>) = <<>>
  BY DEF FlattenSeq
<1>2. CASE Len(seqs) > 0
  <2>1. PICK f \in [1 .. Len(seqs) -> Seq(S)] : FlattenSeq(seqs) = f[Len(seqs)]
    BY <1>2, FlattenExists
  <2> QED BY <1>1, <1>2, <2>1
<1>3. CASE ~(Len(seqs) > 0)
  <2>1. seqs = <<>> /\ <<>> \in Seq(S)
    BY <1>3
  <2> QED BY <1>1, <2>1
<1> QED BY <1>2, <1>3

\* What is appended is flattened last.
LEMMA FlattenAppend ==
  ASSUME NEW S, NEW seqs \in Seq(Seq(S)), NEW s \in Seq(S)
  PROVE  FlattenSeq(Append(seqs, s)) = FlattenSeq(seqs) \o s
<1> DEFINE u == Append(seqs, s)
           n == Len(seqs)
<1>1. /\ u \in Seq(Seq(S)) /\ Len(u) = n + 1 /\ n \in Nat
      /\ u[n + 1] = s /\ \A i \in 1 .. n : u[i] = seqs[i]
  BY AppendProperties, LenProperties
<1> HIDE DEF u
<1>2. PICK g \in [1 .. Len(u) -> Seq(S)] :
        IsFlattening(g, u) /\ FlattenSeq(u) = g[Len(u)]
  BY <1>1, FlattenExists
<1>3. CASE n = 0
  <2>1. FlattenSeq(u) = s
    BY <1>1, <1>2, <1>3 DEF IsFlattening
  <2>2. FlattenSeq(seqs) = <<>>
    <3>1. seqs = <<>>
      BY <1>3
    <3> QED BY <3>1, FlattenType
  <2> QED BY <2>1, <2>2, ConcatEmptySeq DEF u
<1>4. CASE n > 0
  <2>1. PICK f \in [1 .. n -> Seq(S)] :
          IsFlattening(f, seqs) /\ FlattenSeq(seqs) = f[n]
    BY <1>4, FlattenExists
  <2> DEFINE T == {i \in 0 .. n : i = 0 \/ f[i] = g[i]}
  <2>2. 0 \in T
    BY <1>1
  <2>3. ASSUME NEW i \in 1 .. n, i - 1 \in T PROVE i \in T
    <3>1. CASE i = 1
      BY <1>1, <1>2, <1>4, <2>1, <3>1 DEF IsFlattening
    <3>2. CASE i # 1
      <4>1. i \in 2 .. n /\ i \in 2 .. Len(u) /\ i \in 0 .. n /\ f[i - 1] = g[i - 1]
        BY <1>1, <2>3, <3>2
      <4>2. \A j \in 2 .. n : f[j] = f[j - 1] \o seqs[j]
        BY <2>1 DEF IsFlattening
      <4>3. \A j \in 2 .. Len(u) : g[j] = g[j - 1] \o u[j]
        BY <1>2 DEF IsFlattening
      <4>4. f[i] = f[i - 1] \o seqs[i]
        BY ONLY <4>1, <4>2, Zenon
      <4>5. g[i] = g[i - 1] \o u[i]
        BY ONLY <4>1, <4>3, Zenon
      <4> QED BY <1>1, <4>1, <4>4, <4>5
    <3> QED BY <3>1, <3>2
  <2>4. 0 .. n \subseteq T
    <3> HIDE DEF T
    <3> QED BY <1>1, <2>2, <2>3, UpTo
  <2>5. f[n] = g[n]
    <3>1. n \in 0 .. n /\ n # 0
      BY <1>1, <1>4
    <3> QED BY <2>4, <3>1
  <2>6. g[n + 1] = g[n] \o u[n + 1]
    <3>1. Len(u) \in 2 .. Len(u) /\ Len(u) - 1 = n
      BY <1>1, <1>4
    <3>2. \A j \in 2 .. Len(u) : g[j] = g[j - 1] \o u[j]
      BY <1>2 DEF IsFlattening
    <3>3. g[Len(u)] = g[Len(u) - 1] \o u[Len(u)]
      BY ONLY <3>1, <3>2, Zenon
    <3> QED BY <1>1, <3>1, <3>3
  <2> QED BY <1>1, <1>2, <2>1, <2>5, <2>6 DEF u
<1> QED BY <1>1, <1>3, <1>4

\* Induction downwards from n.
LEMMA DownTo ==
  ASSUME NEW n \in Nat, NEW T, \A i \in 1 .. n : (\A k \in i + 1 .. n : k \in T) => i \in T
  PROVE  1 .. n \subseteq T
<1> DEFINE Wrong == {d \in 0 .. n - 1 : n - d \notin T}
<1> SUFFICES ASSUME NEW j \in 1 .. n, j \notin T PROVE FALSE
  OBVIOUS
<1>1. n - j \in Wrong /\ Wrong \in SUBSET Nat
  OBVIOUS
<1>2. PICK m \in Wrong : \A d \in Wrong : m <= d
  BY <1>1, LeastNat
<1>3. m \in 0 .. n - 1 /\ n - m \notin T /\ n - m \in 1 .. n
  BY <1>2
<1>4. ASSUME NEW k \in n - m + 1 .. n, k \notin T PROVE FALSE
  <2>1. n - k \in 0 .. n - 1 /\ n - (n - k) = k /\ ~(m <= n - k)
    BY <1>3
  <2>2. n - k \in Wrong
    BY <1>4, <2>1
  <2> QED BY <1>2, <2>1, <2>2
<1> QED BY <1>3, <1>4

-----------------------------------------------------------------------------
(* Joining the occurrences of a pair in a sequence. *)

\* One equation of the recursive definition in JoinAll.
Joined(f, seq, pair, new, i) ==
  IF i > Len(seq) THEN <<>>
  ELSE IF i < Len(seq) /\ <<seq[i], seq[i + 1]>> = pair
       THEN <<new>> \o f[i + 2]
       ELSE <<seq[i]>> \o f[i + 1]

\* `f' gives what the positions from each one on are joined to.
IsJoin(f, seq, pair, new) ==
  \A i \in 1 .. Len(seq) + 1 : f[i] = Joined(f, seq, pair, new, i)

\* There is one, which JoinAll starts with.
JoinSolved(S, seq, pair, new) ==
  \E f \in [1 .. Len(seq) + 1 -> Seq(S)] :
    IsJoin(f, seq, pair, new) /\ JoinAll(seq, pair, new) = f[1]

\* It depends on what follows only.
LEMMA JoinedLooksAhead ==
  ASSUME NEW seq, Len(seq) \in Nat, NEW pair, NEW new, NEW f, NEW g,
         NEW i \in 1 .. Len(seq) + 1,
         \A k \in i + 1 .. Len(seq) + 1 : f[k] = g[k]
  PROVE  Joined(f, seq, pair, new, i) = Joined(g, seq, pair, new, i)
<1>1. CASE i > Len(seq)
  BY <1>1 DEF Joined
<1>2. CASE i = Len(seq)
  <2>1. i + 1 \in i + 1 .. Len(seq) + 1 /\ ~(i > Len(seq)) /\ ~(i < Len(seq))
    BY <1>2
  <2> QED BY <2>1 DEF Joined
<1>3. CASE i < Len(seq)
  <2>1. /\ i + 1 \in i + 1 .. Len(seq) + 1 /\ i + 2 \in i + 1 .. Len(seq) + 1
        /\ ~(i > Len(seq))
    BY <1>3
  <2> QED BY <2>1 DEF Joined
<1> QED BY <1>1, <1>2, <1>3

\* The recursive definition in JoinAll has a solution, and is it.
LEMMA JoinExists ==
  ASSUME NEW S, NEW seq \in Seq(S), NEW pair, NEW new \in S
  PROVE  JoinSolved(S, seq, pair, new)
<1> DEFINE D == 1 .. Len(seq) + 1
           one(f, i) == Joined(f, seq, pair, new, i)
           body == [f \in [D -> Seq(S)] |-> [i \in D |-> one(f, i)]]
           rank == [i \in D |-> Len(seq) + 1 - i]
<1>1. Len(seq) \in Nat /\ \A i \in 1 .. Len(seq) : seq[i] \in S
  BY ElementOfSeq, LenProperties
<1>2. <<>> \in Seq(S) /\ \A e \in S : <<e>> \in Seq(S)
  OBVIOUS
<1>3. ASSUME NEW f \in [D -> Seq(S)], NEW i \in D PROVE one(f, i) \in Seq(S)
  <2>1. CASE i > Len(seq)
    BY <1>2, <2>1 DEF Joined
  <2>2. CASE ~(i > Len(seq))
    <3>1. i \in 1 .. Len(seq) /\ i + 1 \in D /\ (i < Len(seq) => i + 2 \in D)
      BY <1>1, <2>2
    <3>2. <<seq[i]>> \o f[i + 1] \in Seq(S)
      BY <1>1, <1>2, <3>1, ConcatProperties
    <3>3. i < Len(seq) => <<new>> \o f[i + 2] \in Seq(S)
      BY <1>2, <3>1, ConcatProperties
    <3> QED BY <2>2, <3>2, <3>3 DEF Joined
  <2> QED BY <2>1, <2>2
<1>4. body \in [[D -> Seq(S)] -> [D -> Seq(S)]]
  BY <1>3
<1>5. rank \in [D -> 0 .. Len(seq)]
  BY <1>1
<1>6. ASSUME NEW g \in [D -> Seq(S)], NEW h \in [D -> Seq(S)], NEW d \in D,
             \A e \in D : rank[e] < rank[d] => g[e] = h[e]
      PROVE  body[g][d] = body[h][d]
  <2>1. ASSUME NEW k \in d + 1 .. Len(seq) + 1 PROVE g[k] = h[k]
    <3>1. k \in D /\ Len(seq) + 1 - k < Len(seq) + 1 - d
      BY <1>1
    <3> QED BY <1>6, <3>1
  <2>2. one(g, d) = one(h, d)
    BY <1>1, <2>1, JoinedLooksAhead
  <2> HIDE DEF one
  <2> QED BY <2>2
<1>7. Recursive(D, Seq(S), Len(seq), rank, body)
  <2> HIDE DEF D, body, rank
  <2> QED BY <1>1, <1>2, <1>4, <1>5, <1>6 DEF Recursive
<1>8. \E f \in [D -> Seq(S)] : f = body[f]
  <2> HIDE DEF D, body, rank
  <2> QED BY <1>7, RecursionWellDefined
<1>9. PICK f \in [D -> Seq(S)] : f = [i \in D |-> one(f, i)]
  <2> HIDE DEF D, one
  <2> QED BY <1>8
<1> DEFINE from == CHOOSE g : g = [i \in D |-> one(g, i)]
<1>10. from = [i \in D |-> one(from, i)]
  <2> HIDE DEF D, one
  <2> QED BY <1>9
<1>11. JoinAll(seq, pair, new) = from[1]
  BY DEF JoinAll, Joined
<1> HIDE DEF from
<1>12. \A i \in D : f[i] = one(f, i) /\ from[i] = one(from, i)
  <2> HIDE DEF one
  <2>1. \A i \in D : f[i] = one(f, i)
    BY <1>9
  <2>2. \A i \in D : from[i] = one(from, i)
    BY <1>10
  <2> QED BY <2>1, <2>2
<1>13. D \subseteq {i \in D : from[i] = f[i]}
  <2> DEFINE T == {i \in D : from[i] = f[i]}
  <2>1. ASSUME NEW i \in D, \A k \in i + 1 .. Len(seq) + 1 : k \in T PROVE i \in T
    <3>1. one(from, i) = one(f, i)
      BY <1>1, <2>1, JoinedLooksAhead
    <3> QED BY <1>12, <3>1
  <2>2. 1 .. Len(seq) + 1 \subseteq T
    <3>1. Len(seq) + 1 \in Nat
      BY <1>1
    <3> HIDE DEF T
    <3> QED BY <2>1, <3>1, DownTo
  <2> QED BY <2>2
<1>14. from[1] = f[1]
  <2>1. 1 \in D
    BY <1>1
  <2> QED BY <1>13, <2>1
<1>15. IsJoin(f, seq, pair, new)
  BY <1>12 DEF IsJoin
<1> QED BY <1>11, <1>14, <1>15 DEF JoinSolved

LEMMA JoinType ==
  ASSUME NEW S, NEW seq \in Seq(S), NEW pair, NEW new \in S
  PROVE  /\ JoinAll(seq, pair, new) \in Seq(S)
         /\ JoinAll(<<>>, pair, new) = <<>>
<1>1. JoinAll(seq, pair, new) \in Seq(S)
  <2>0. JoinSolved(S, seq, pair, new)
    BY JoinExists
  <2>1. PICK f \in [1 .. Len(seq) + 1 -> Seq(S)] : JoinAll(seq, pair, new) = f[1]
    BY <2>0 DEF JoinSolved
  <2>2. 1 \in 1 .. Len(seq) + 1
    BY LenProperties
  <2> QED BY <2>1, <2>2
<1>2. JoinAll(<<>>, pair, new) = <<>>
  <2>1. <<>> \in Seq(S) /\ Len(<<>>) = 0
    OBVIOUS
  <2>0. JoinSolved(S, <<>>, pair, new)
    BY <2>1, JoinExists
  <2>2. PICK f \in [1 .. Len(<<>>) + 1 -> Seq(S)] :
          IsJoin(f, <<>>, pair, new) /\ JoinAll(<<>>, pair, new) = f[1]
    BY <2>0 DEF JoinSolved
  <2>3. f[1] = Joined(f, <<>>, pair, new, 1)
    BY <2>1, <2>2 DEF IsJoin
  <2> QED BY <2>1, <2>2, <2>3 DEF Joined
<1> QED BY <1>1, <1>2

\* What the positions of the tail are joined to, it is joined to on its own.
LEMMA JoinTail ==
  ASSUME NEW S, NEW s \in Seq(S), s # <<>>, NEW pair, NEW new,
         NEW f, IsJoin(f, s, pair, new), NEW g, IsJoin(g, Tail(s), pair, new)
  PROVE  \A j \in 1 .. Len(s) : f[j + 1] = g[j]
<1> DEFINE n == Len(s)
           t == Tail(s)
           T == {j \in 1 .. n : f[j + 1] = g[j]}
<1>1. /\ n \in Nat /\ n > 0 /\ t \in Seq(S) /\ Len(t) = n - 1
      /\ \A i \in 1 .. n - 1 : t[i] = s[i + 1]
  <2>1. n \in Nat /\ n # 0
    BY EmptySeq
  <2>2. t \in Seq(S) /\ Len(t) = n - 1 /\ \A i \in 1 .. Len(t) : t[i] = s[i + 1]
    BY HeadTailProperties
  <2> QED BY <2>1, <2>2
<1> HIDE DEF t, n
<1>2. ASSUME NEW j \in 1 .. n, \A k \in j + 1 .. n : k \in T PROVE j \in T
  <2>1. f[j + 1] = Joined(f, s, pair, new, j + 1) /\ g[j] = Joined(g, t, pair, new, j)
    <3>1. j + 1 \in 1 .. Len(s) + 1 /\ j \in 1 .. Len(t) + 1
      BY <1>1 DEF n
    <3> QED BY <3>1 DEF IsJoin, t
  <2>2. \A k \in j + 1 .. n : f[k + 1] = g[k]
    BY <1>2
  <2>3. CASE j = n
    BY <1>1, <2>1, <2>3 DEF Joined, n
  <2>4. CASE j = n - 1
    <3>1. j + 1 \in j + 1 .. n /\ j \in 1 .. n - 1
      BY <1>1, <2>4
    <3>2. t[j] = s[j + 1] /\ f[j + 2] = g[j + 1]
      <4>1. f[j + 1 + 1] = g[j + 1]
        BY <2>2, <3>1
      <4> QED BY <1>1, <3>1, <4>1
    <3> QED BY <1>1, <2>1, <2>4, <3>2 DEF Joined, n
  <2>5. CASE j < n - 1
    <3>1. j + 1 \in j + 1 .. n /\ j + 2 \in j + 1 .. n /\ j \in 1 .. n - 1 /\ j + 1 \in 1 .. n - 1
      BY <1>1, <2>5
    <3>2. t[j] = s[j + 1] /\ t[j + 1] = s[j + 2] /\ f[j + 2] = g[j + 1] /\ f[j + 3] = g[j + 2]
      <4>1. f[j + 1 + 1] = g[j + 1] /\ f[j + 2 + 1] = g[j + 2] /\ t[j + 1] = s[j + 1 + 1]
        BY <1>1, <2>2, <3>1
      <4> QED BY <1>1, <3>1, <4>1
    <3>3. /\ j + 1 + 1 = j + 2 /\ j + 1 + 2 = j + 3
          /\ ~(j + 1 > Len(s)) /\ j + 1 < Len(s) /\ ~(j > Len(t)) /\ j < Len(t)
      BY <1>1, <2>5 DEF n
    <3> QED BY <2>1, <3>2, <3>3 DEF Joined
  <2> QED BY <1>1, <2>3, <2>4, <2>5
<1>3. 1 .. n \subseteq T
  <2> HIDE DEF T
  <2> QED BY <1>1, <1>2, DownTo
<1> QED BY <1>3 DEF n

\* What is put in front is the head of what results, and the rest its tail.
LEMMA PutInFront ==
  ASSUME NEW S, NEW x \in S, NEW r \in Seq(S)
  PROVE  /\ <<x>> \o r \in Seq(S) /\ <<x>> \o r # <<>>
         /\ Len(<<x>> \o r) = Len(r) + 1 /\ Len(r) \in Nat
         /\ (<<x>> \o r)[1] = x /\ \A i \in 1 .. Len(r) : (<<x>> \o r)[i + 1] = r[i]
         /\ Tail(<<x>> \o r) = r
<1> DEFINE s == <<x>> \o r
<1>1. /\ s \in Seq(S) /\ s # <<>> /\ Len(s) = Len(r) + 1 /\ Len(r) \in Nat
      /\ s[1] = x /\ \A i \in 1 .. Len(r) : s[i + 1] = r[i]
  <2>1. <<x>> \in Seq(S) /\ Len(<<x>>) = 1 /\ <<x>>[1] = x /\ Len(r) \in Nat
    BY LenProperties
  <2>2. /\ s \in Seq(S) /\ Len(s) = 1 + Len(r)
        /\ \A i \in 1 .. 1 + Len(r) : s[i] = IF i <= 1 THEN <<x>>[i] ELSE r[i - 1]
    BY <2>1, ConcatProperties
  <2> HIDE DEF s
  <2> QED BY <2>1, <2>2
<1>2. Tail(s) = r
  <2>1. /\ Tail(s) \in Seq(S) /\ Len(Tail(s)) = Len(r)
        /\ \A i \in 1 .. Len(r) : Tail(s)[i] = s[i + 1]
    <3>1. /\ Tail(s) \in Seq(S) /\ Len(Tail(s)) = Len(s) - 1
          /\ \A i \in 1 .. Len(Tail(s)) : Tail(s)[i] = s[i + 1]
      BY <1>1, HeadTailProperties
    <3> QED BY <1>1, <3>1
  <2> QED BY <1>1, <2>1, SeqEqual
<1> HIDE DEF s
<1> QED BY <1>1, <1>2 DEF s

\* Joining starts at the head.
HeadJoined(x, r, pair, new) ==
  JoinAll(<<x>> \o r, pair, new) =
    IF r # <<>> /\ <<x, r[1]>> = pair
    THEN <<new>> \o JoinAll(Tail(r), pair, new)
    ELSE <<x>> \o JoinAll(r, pair, new)

LEMMA JoinHead ==
  ASSUME NEW S, NEW x \in S, NEW r \in Seq(S), NEW pair, NEW new \in S
  PROVE  HeadJoined(x, r, pair, new)
<1> DEFINE s == <<x>> \o r
<1>1. /\ s \in Seq(S) /\ s # <<>> /\ Len(s) = Len(r) + 1 /\ Len(r) \in Nat
      /\ s[1] = x /\ \A i \in 1 .. Len(r) : s[i + 1] = r[i]
  BY PutInFront
<1>2. Tail(s) = r
  BY PutInFront
<1> HIDE DEF s
<1>3. PICK f \in [1 .. Len(s) + 1 -> Seq(S)] :
        IsJoin(f, s, pair, new) /\ JoinAll(s, pair, new) = f[1]
  <2>1. JoinSolved(S, s, pair, new)
    BY <1>1, JoinExists
  <2> QED BY <2>1 DEF JoinSolved
<1>4. PICK g \in [1 .. Len(r) + 1 -> Seq(S)] :
        IsJoin(g, r, pair, new) /\ JoinAll(r, pair, new) = g[1]
  <2>1. JoinSolved(S, r, pair, new)
    BY JoinExists
  <2> QED BY <2>1 DEF JoinSolved
<1>5. f[2] = g[1] /\ (Len(r) > 0 => f[3] = g[2])
  <2>0. IsJoin(g, Tail(s), pair, new) /\ IsJoin(f, s, pair, new) /\ s \in Seq(S) /\ s # <<>>
    BY <1>1, <1>2, <1>3, <1>4
  <2>1. \A j \in 1 .. Len(s) : f[j + 1] = g[j]
    BY ONLY <2>0, JoinTail
  <2>2. f[1 + 1] = g[1]
    BY <1>1, <2>1
  <2>3. ASSUME Len(r) > 0 PROVE f[2 + 1] = g[2]
    BY <1>1, <2>1, <2>3
  <2> QED BY <2>2, <2>3
<1>6. r # <<>> => g[2] = JoinAll(Tail(r), pair, new)
  <2> SUFFICES ASSUME r # <<>> PROVE g[2] = JoinAll(Tail(r), pair, new)
    OBVIOUS
  <2>1. Tail(r) \in Seq(S)
    BY HeadTailProperties
  <2>2. PICK h \in [1 .. Len(Tail(r)) + 1 -> Seq(S)] :
          IsJoin(h, Tail(r), pair, new) /\ JoinAll(Tail(r), pair, new) = h[1]
    <3>1. JoinSolved(S, Tail(r), pair, new)
      BY <2>1, JoinExists
    <3> QED BY <3>1 DEF JoinSolved
  <2>3. \A j \in 1 .. Len(r) : g[j + 1] = h[j]
    BY <1>4, <2>2, JoinTail
  <2>4. 1 \in 1 .. Len(r)
    BY <1>1, EmptySeq
  <2>5. g[1 + 1] = h[1]
    BY <2>3, <2>4
  <2> QED BY <2>2, <2>5
<1>7. f[1] = Joined(f, s, pair, new, 1)
  BY <1>1, <1>3 DEF IsJoin
<1>8. Len(r) > 0 <=> r # <<>>
  BY <1>1, EmptySeq
<1>9. f[1] = IF Len(r) > 0 /\ <<s[1], s[2]>> = pair THEN <<new>> \o f[3] ELSE <<s[1]>> \o f[2]
  <2>1. ~(1 > Len(s)) /\ (1 < Len(s) <=> Len(r) > 0) /\ 1 + 1 = 2 /\ 1 + 2 = 3
    BY <1>1
  <2> QED BY <1>7, <2>1 DEF Joined
<1>10. Len(r) > 0 => s[2] = r[1]
  <2>1. Len(r) > 0 => s[1 + 1] = r[1]
    BY <1>1
  <2> QED BY <2>1
<1>11. JoinAll(s, pair, new) =
         IF r # <<>> /\ <<x, r[1]>> = pair
         THEN <<new>> \o JoinAll(Tail(r), pair, new)
         ELSE <<x>> \o JoinAll(r, pair, new)
  BY <1>1, <1>3, <1>4, <1>5, <1>6, <1>8, <1>9, <1>10
<1> QED BY <1>11 DEF s, HeadJoined

-----------------------------------------------------------------------------
(* Reading a list. *)

\* Induction from the last position to the first, over the set of the positions
\* it has been shown for.
LEMMA Backwards ==
  ASSUME NEW n \in Nat, NEW T,
         \A p \in 0 .. n - 1 : (\A k \in p + 1 .. n - 1 : k \in T) => p \in T
  PROVE  0 .. n - 1 \subseteq T
<1> DEFINE U == {i \in 1 .. n : i - 1 \in T}
<1>1. ASSUME NEW i \in 1 .. n, \A k \in i + 1 .. n : k \in U PROVE i \in U
  <2>1. ASSUME NEW k \in i - 1 + 1 .. n - 1 PROVE k \in T
    <3>1. k + 1 \in i + 1 .. n /\ k + 1 - 1 = k
      OBVIOUS
    <3>2. k + 1 \in U
      BY <1>1, <3>1
    <3> QED BY <3>1, <3>2
  <2>2. i - 1 \in 0 .. n - 1
    OBVIOUS
  <2> QED BY <2>1, <2>2
<1>2. 1 .. n \subseteq U
  <2> HIDE DEF U
  <2> QED BY <1>1, DownTo
<1>3. ASSUME NEW p \in 0 .. n - 1 PROVE p \in T
  <2>1. p + 1 \in 1 .. n /\ p + 1 - 1 = p
    OBVIOUS
  <2>2. p + 1 \in U
    BY <1>2, <2>1
  <2> QED BY <2>1, <2>2
<1> QED BY <1>3

\* Links over n positions: they lead to the right, to what is not consumed, and
\* no two of them to the same position.
Links(n, nxt) ==
  /\ n \in Nat
  /\ nxt \in [0 .. n - 1 -> (0 .. n - 1) \union {End, Consumed}]
  /\ \A p \in 0 .. n - 1 : nxt[p] >= 0 => nxt[p] > p /\ nxt[nxt[p]] # Consumed
  /\ \A p, q \in 0 .. n - 1 : nxt[p] >= 0 /\ nxt[p] = nxt[q] => p = q

\* TokensFrom, for any tokens and links.
ReadFrom(tok, nxt, p) ==
  LET walk[q \in {r \in DOMAIN nxt : nxt[r] # Consumed} \union {End}] ==
        IF q = End THEN <<>> ELSE <<tok[q]>> \o walk[nxt[q]]
  IN walk[p]

\* Its recursive definition says what it is to say.
ReadsOn(S, n, tok, nxt) ==
  /\ ReadFrom(tok, nxt, End) = <<>>
  /\ \A p \in 0 .. n - 1 : nxt[p] # Consumed =>
       /\ ReadFrom(tok, nxt, p) = <<tok[p]>> \o ReadFrom(tok, nxt, nxt[p])
       /\ ReadFrom(tok, nxt, p) \in Seq(S)

LEMMA ReadHead ==
  ASSUME NEW S, NEW n, NEW tok \in [0 .. n - 1 -> S], NEW nxt, Links(n, nxt)
  PROVE  ReadsOn(S, n, tok, nxt)
<1> USE DEF End, Consumed
<1> DEFINE D == {r \in DOMAIN nxt : nxt[r] # Consumed} \union {End}
           one(f, q) == IF q = End THEN <<>> ELSE <<tok[q]>> \o f[nxt[q]]
           body == [f \in [D -> Seq(S)] |-> [q \in D |-> one(f, q)]]
           rank == [q \in D |-> IF q = End THEN 0 ELSE n - q]
<1>1. /\ n \in Nat
      /\ \A q \in D : q = End \/ (q \in 0 .. n - 1 /\ nxt[q] # Consumed)
      /\ \A q \in 0 .. n - 1 : nxt[q] # Consumed => q \in D
  BY DEF Links
<1>2. \A q \in D \ {End} : nxt[q] \in D /\ rank[nxt[q]] < rank[q]
  BY <1>1 DEF Links
<1>3. <<>> \in Seq(S) /\ \A e \in S : <<e>> \in Seq(S)
  OBVIOUS
<1>4. ASSUME NEW f \in [D -> Seq(S)], NEW q \in D PROVE one(f, q) \in Seq(S)
  <2>1. CASE q = End
    BY <1>3, <2>1
  <2>2. CASE q # End
    <3>1. f[nxt[q]] \in Seq(S) /\ <<tok[q]>> \in Seq(S)
      <4>1. nxt[q] \in D /\ q \in 0 .. n - 1
        BY <1>1, <1>2, <2>2
      <4>2. tok[q] \in S
        BY <4>1
      <4> HIDE DEF D
      <4> QED BY <1>3, <4>1, <4>2
    <3>2. <<tok[q]>> \o f[nxt[q]] \in Seq(S)
      BY <3>1, ConcatProperties
    <3> QED BY <2>2, <3>2
  <2> QED BY <2>1, <2>2
<1>5. body \in [[D -> Seq(S)] -> [D -> Seq(S)]]
  BY <1>4
<1>6. rank \in [D -> 0 .. n]
  <2>1. \A q \in D : (IF q = End THEN 0 ELSE n - q) \in 0 .. n
    BY <1>1
  <2> QED BY <2>1
<1>7. ASSUME NEW g \in [D -> Seq(S)], NEW h \in [D -> Seq(S)], NEW d \in D,
             \A e \in D : rank[e] < rank[d] => g[e] = h[e]
      PROVE  body[g][d] = body[h][d]
  <2>1. one(g, d) = one(h, d)
    <3>1. CASE d = End
      BY <3>1
    <3>2. CASE d # End
      <4>1. g[nxt[d]] = h[nxt[d]]
        BY <1>2, <1>7, <3>2
      <4> QED BY <3>2, <4>1
    <3> QED BY <3>1, <3>2
  <2> QED BY <2>1
<1>8. Recursive(D, Seq(S), n, rank, body)
  <2> HIDE DEF D, body, rank
  <2> QED BY <1>1, <1>3, <1>5, <1>6, <1>7 DEF Recursive
<1>9. \E f \in [D -> Seq(S)] : f = body[f]
  <2> HIDE DEF D, body, rank
  <2> QED BY <1>8, RecursionWellDefined
<1>10. PICK f \in [D -> Seq(S)] : f = [q \in D |-> one(f, q)]
  <2> HIDE DEF D, one
  <2> QED BY <1>9
<1> DEFINE walk == CHOOSE g : g = [q \in D |-> one(g, q)]
<1>11. walk = [q \in D |-> one(walk, q)]
  <2> HIDE DEF D, one
  <2> QED BY <1>10
<1>12. \A p : ReadFrom(tok, nxt, p) = walk[p]
  BY DEF ReadFrom
<1> HIDE DEF walk
<1>13. \A q \in D : walk[q] = one(walk, q)
  <2> HIDE DEF one
  <2> QED BY <1>11
<1>14. walk[End] = <<>>
  BY <1>13
<1>15. \A q \in 0 .. n - 1 : nxt[q] # Consumed => walk[q] = <<tok[q]>> \o walk[nxt[q]]
  <2> SUFFICES ASSUME NEW q \in 0 .. n - 1, nxt[q] # Consumed
               PROVE  walk[q] = <<tok[q]>> \o walk[nxt[q]]
    OBVIOUS
  <2>1. q \in D /\ q # End
    BY <1>1
  <2> HIDE DEF D
  <2> QED BY <1>13, <2>1
<1>16. 0 .. n - 1 \subseteq {q \in 0 .. n - 1 : nxt[q] # Consumed => walk[q] \in Seq(S)}
  <2> DEFINE T == {q \in 0 .. n - 1 : nxt[q] # Consumed => walk[q] \in Seq(S)}
  <2>1. ASSUME NEW p \in 0 .. n - 1, \A k \in p + 1 .. n - 1 : k \in T PROVE p \in T
    <3> SUFFICES ASSUME nxt[p] # Consumed PROVE walk[p] \in Seq(S)
      OBVIOUS
    <3>1. walk[nxt[p]] \in Seq(S)
      <4>1. CASE nxt[p] = End
        BY <1>3, <1>14, <4>1
      <4>2. CASE nxt[p] # End
        <5>1. nxt[p] \in p + 1 .. n - 1 /\ nxt[nxt[p]] # Consumed
          BY <1>1, <4>2 DEF Links
        <5> QED BY <2>1, <5>1
      <4> QED BY <4>1, <4>2
    <3>2. <<tok[p]>> \in Seq(S)
      BY <1>3
    <3>3. <<tok[p]>> \o walk[nxt[p]] \in Seq(S)
      BY <3>1, <3>2, ConcatProperties
    <3> QED BY <1>15, <3>3
  <2> HIDE DEF T
  <2>2. 0 .. n - 1 \subseteq T
    BY <1>1, <2>1, Backwards
  <2> QED BY <2>2 DEF T
<1> HIDE DEF D, one
<1>17. \A p \in 0 .. n - 1 : nxt[p] # Consumed =>
         /\ walk[p] = <<tok[p]>> \o walk[nxt[p]]
         /\ walk[p] \in Seq(S)
  BY <1>15, <1>16
<1> QED BY ONLY <1>12, <1>14, <1>17, Zenon DEF ReadsOn, End, Consumed

\* The pair is read at position p.
HasPair(tok, nxt, pair, p) == nxt[p] >= 0 /\ <<tok[p], tok[nxt[p]]>> = pair

\* Joining what is read, position by position.
JoinsOn(n, tok, nxt, pair, new) ==
  /\ JoinAll(ReadFrom(tok, nxt, End), pair, new) = <<>>
  /\ \A p \in 0 .. n - 1 : nxt[p] # Consumed =>
       JoinAll(ReadFrom(tok, nxt, p), pair, new) =
         IF HasPair(tok, nxt, pair, p)
         THEN <<new>> \o JoinAll(ReadFrom(tok, nxt, nxt[nxt[p]]), pair, new)
         ELSE <<tok[p]>> \o JoinAll(ReadFrom(tok, nxt, nxt[p]), pair, new)

LEMMA JoinRead ==
  ASSUME NEW S, NEW n, NEW tok \in [0 .. n - 1 -> S], NEW nxt, Links(n, nxt),
         NEW pair, NEW new \in S
  PROVE  JoinsOn(n, tok, nxt, pair, new)
<1> USE DEF End, Consumed
<1> DEFINE R(p) == ReadFrom(tok, nxt, p)
<1>1. /\ R(End) = <<>>
      /\ \A p \in 0 .. n - 1 : nxt[p] # Consumed => R(p) = <<tok[p]>> \o R(nxt[p]) /\ R(p) \in Seq(S)
  <2>1. ReadsOn(S, n, tok, nxt)
    BY ReadHead
  <2> QED BY <2>1 DEF ReadsOn
<1>2. <<>> \in Seq(S)
  OBVIOUS
<1> HIDE DEF R
<1>3. JoinAll(R(End), pair, new) = <<>>
  BY <1>1, <1>2, JoinType
<1>4. ASSUME NEW p \in 0 .. n - 1, nxt[p] # Consumed
      PROVE  JoinAll(R(p), pair, new) =
               IF HasPair(tok, nxt, pair, p)
               THEN <<new>> \o JoinAll(R(nxt[nxt[p]]), pair, new)
               ELSE <<tok[p]>> \o JoinAll(R(nxt[p]), pair, new)
  <2> DEFINE q == nxt[p]
  <2>1. /\ tok[p] \in S
        /\ q = End \/ (q \in 0 .. n - 1 /\ nxt[q] # Consumed)
    BY <1>4 DEF Links
  <2>2. R(p) = <<tok[p]>> \o R(q) /\ R(q) \in Seq(S)
    BY <1>1, <1>2, <1>4, <2>1
  <2>3. CASE q = End
    <3>1. R(q) = <<>> /\ ~HasPair(tok, nxt, pair, p)
      BY <1>1, <2>3 DEF HasPair
    <3> HIDE DEF q
    <3>2. JoinAll(<<tok[p]>> \o R(q), pair, new) = <<tok[p]>> \o JoinAll(R(q), pair, new)
      <4>1. HeadJoined(tok[p], R(q), pair, new)
        BY <2>1, <2>2, JoinHead
      <4> QED BY <3>1, <4>1 DEF HeadJoined
    <3> QED BY <2>2, <3>1, <3>2 DEF q
  <2>4. CASE q # End
    <3>1. q \in 0 .. n - 1 /\ nxt[q] # Consumed /\ q >= 0
      BY <2>1, <2>4
    <3>2. nxt[q] = End \/ (nxt[q] \in 0 .. n - 1 /\ nxt[nxt[q]] # Consumed)
      BY <3>1 DEF Links
    <3> HIDE DEF q
    <3>3. R(q) = <<tok[q]>> \o R(nxt[q]) /\ tok[q] \in S /\ R(nxt[q]) \in Seq(S)
      BY <1>1, <1>2, <3>1, <3>2
    <3>4. R(q) # <<>> /\ R(q)[1] = tok[q] /\ Tail(R(q)) = R(nxt[q])
      BY <3>3, PutInFront
    <3>5. JoinAll(<<tok[p]>> \o R(q), pair, new) =
            IF R(q) # <<>> /\ <<tok[p], R(q)[1]>> = pair
            THEN <<new>> \o JoinAll(Tail(R(q)), pair, new)
            ELSE <<tok[p]>> \o JoinAll(R(q), pair, new)
      <4>1. HeadJoined(tok[p], R(q), pair, new)
        BY <2>1, <2>2, JoinHead
      <4> QED BY <4>1 DEF HeadJoined
    <3>6. HasPair(tok, nxt, pair, p) <=> <<tok[p], tok[q]>> = pair
      BY <3>1 DEF HasPair, q
    <3> QED BY <2>2, <3>4, <3>5, <3>6 DEF q
  <2> QED BY <2>3, <2>4
<1> QED BY <1>3, <1>4 DEF R, JoinsOn

\* Where the pair is not read at any position, joining changes nothing.
NoOccurrence(S, n, tok, nxt, pair, new, p) ==
  /\ tok \in [0 .. n - 1 -> S] /\ Links(n, nxt) /\ new \in S
  /\ \A q \in 0 .. n - 1 : ~HasPair(tok, nxt, pair, q)
  /\ p \in 0 .. n - 1 /\ nxt[p] # Consumed

LEMMA JoinNone ==
  ASSUME NEW S, NEW n, NEW tok, NEW nxt, NEW pair, NEW new, NEW p,
         NoOccurrence(S, n, tok, nxt, pair, new, p)
  PROVE  JoinAll(ReadFrom(tok, nxt, p), pair, new) = ReadFrom(tok, nxt, p)
<1> USE DEF End, Consumed
<1>0. /\ tok \in [0 .. n - 1 -> S] /\ Links(n, nxt) /\ new \in S
      /\ \A q \in 0 .. n - 1 : ~HasPair(tok, nxt, pair, q)
      /\ p \in 0 .. n - 1 /\ nxt[p] # Consumed
  BY DEF NoOccurrence
<1> DEFINE R(q) == ReadFrom(tok, nxt, q)
           J(q) == JoinAll(R(q), pair, new)
           T == {q \in 0 .. n - 1 : nxt[q] # Consumed => J(q) = R(q)}
<1>1. /\ R(End) = <<>>
      /\ \A q \in 0 .. n - 1 : nxt[q] # Consumed => R(q) = <<tok[q]>> \o R(nxt[q])
  <2>1. ReadsOn(S, n, tok, nxt)
    BY <1>0, ReadHead
  <2> QED BY <2>1 DEF ReadsOn
<1>2. /\ J(End) = <<>>
      /\ \A q \in 0 .. n - 1 : nxt[q] # Consumed => J(q) = <<tok[q]>> \o J(nxt[q])
  <2>1. JoinsOn(n, tok, nxt, pair, new)
    BY <1>0, JoinRead
  <2> QED BY <1>0, <2>1 DEF JoinsOn
<1> HIDE DEF J, R
<1>3. ASSUME NEW q \in 0 .. n - 1, \A k \in q + 1 .. n - 1 : k \in T PROVE q \in T
  <2> SUFFICES ASSUME nxt[q] # Consumed PROVE J(q) = R(q)
    OBVIOUS
  <2>1. CASE nxt[q] = End
    BY <1>1, <1>2, <2>1
  <2>2. CASE nxt[q] # End
    <3>1. nxt[q] \in q + 1 .. n - 1 /\ nxt[nxt[q]] # Consumed
      BY <1>0, <2>2 DEF Links
    <3>2. J(nxt[q]) = R(nxt[q])
      BY <1>3, <3>1
    <3> QED BY <1>1, <1>2, <3>2
  <2> QED BY <2>1, <2>2
<1>4. 0 .. n - 1 \subseteq T
  <2> HIDE DEF T
  <2>1. n \in Nat
    BY <1>0 DEF Links
  <2> QED BY <1>3, <2>1, Backwards
<1>5. J(p) = R(p)
  BY <1>0, <1>4
<1> QED BY <1>5 DEF J, R

-----------------------------------------------------------------------------
(* Merging the leftmost occurrence of a pair. *)

MergedTokens(tok, left, new) == [tok EXCEPT ![left] = new]
MergedLinks(nxt, left) == [nxt EXCEPT ![left] = nxt[nxt[left]], ![nxt[left]] = Consumed]

\* What the links are after a merge at `left'.
LEMMA MergedFacts ==
  ASSUME NEW n, NEW nxt, Links(n, nxt), NEW left \in 0 .. n - 1, nxt[left] >= 0,
         NEW nxt2, nxt2 = MergedLinks(nxt, left)
  PROVE  /\ nxt[left] \in left + 1 .. n - 1
         /\ nxt[nxt[left]] \in ((nxt[left] + 1 .. n - 1) \union {End})
         /\ nxt2 \in [0 .. n - 1 -> (0 .. n - 1) \union {End, Consumed}]
         /\ nxt2[left] = nxt[nxt[left]]
         /\ nxt2[nxt[left]] = Consumed
         /\ \A p \in (0 .. n - 1) \ {left, nxt[left]} : nxt2[p] = nxt[p]
         /\ \A p \in 0 .. n - 1 : nxt2[p] # Consumed <=> nxt[p] # Consumed /\ p # nxt[left]
<1> USE DEF End, Consumed
<1> DEFINE right == nxt[left]
           after == nxt[right]
<1>1. /\ n \in Nat /\ right \in 0 .. n - 1 /\ right > left /\ nxt[right] # Consumed
      /\ nxt \in [0 .. n - 1 -> (0 .. n - 1) \union {End, Consumed}]
  BY DEF Links
<1>2. after = End \/ (after \in 0 .. n - 1 /\ after > right)
  BY <1>1 DEF Links
<1>3. nxt2 = [nxt EXCEPT ![left] = after, ![right] = Consumed]
  BY DEF MergedLinks
<1> HIDE DEF right, after
<1>4. /\ nxt2[left] = after /\ nxt2[right] = Consumed
      /\ \A p \in (0 .. n - 1) \ {left, right} : nxt2[p] = nxt[p]
  BY <1>1, <1>3
<1>5. nxt2 \in [0 .. n - 1 -> (0 .. n - 1) \union {End, Consumed}]
  BY <1>1, <1>2, <1>3
<1>6. \A p \in 0 .. n - 1 : nxt2[p] # Consumed <=> nxt[p] # Consumed /\ p # right
  BY <1>1, <1>2, <1>4 DEF right
<1> QED BY <1>1, <1>2, <1>4, <1>5, <1>6 DEF right, after

LEMMA LinksMerged ==
  ASSUME NEW n, NEW nxt, Links(n, nxt), NEW left \in 0 .. n - 1, nxt[left] >= 0
  PROVE  Links(n, MergedLinks(nxt, left))
<1> USE DEF End, Consumed
<1> DEFINE right == nxt[left]
           after == nxt[right]
           nxt2 == MergedLinks(nxt, left)
<1>1. /\ right \in left + 1 .. n - 1
      /\ after \in ((right + 1 .. n - 1) \union {End})
      /\ nxt2 \in [0 .. n - 1 -> (0 .. n - 1) \union {End, Consumed}]
      /\ nxt2[left] = after
      /\ nxt2[right] = Consumed
      /\ \A p \in (0 .. n - 1) \ {left, right} : nxt2[p] = nxt[p]
      /\ \A p \in 0 .. n - 1 : nxt2[p] # Consumed <=> nxt[p] # Consumed /\ p # right
  BY MergedFacts
<1>2. n \in Nat /\ nxt[left] = right /\ nxt[right] = after
  BY DEF Links
<1> HIDE DEF right, after, nxt2
<1>3. ASSUME NEW p \in 0 .. n - 1, nxt2[p] >= 0
      PROVE  nxt2[p] > p /\ nxt2[nxt2[p]] # Consumed
  <2>1. p # right
    BY <1>1, <1>3
  <2>2. CASE p = left
    <3>1. after \in right + 1 .. n - 1 /\ nxt2[p] = after
      BY <1>1, <1>3, <2>2
    <3>2. nxt[after] # Consumed /\ after # right /\ after \in 0 .. n - 1 /\ after > p
      BY <1>1, <1>2, <2>2, <3>1 DEF Links
    <3> QED BY <1>1, <3>1, <3>2
  <2>3. CASE p # left
    <3>1. nxt2[p] = nxt[p] /\ nxt[p] >= 0
      BY <1>1, <1>3, <2>1, <2>3
    <3>2. /\ nxt[p] > p /\ nxt[nxt[p]] # Consumed /\ nxt[p] # right
          /\ nxt[p] \in 0 .. n - 1
      BY <1>1, <1>2, <2>3, <3>1 DEF Links
    <3> QED BY <1>1, <3>1, <3>2
  <2> QED BY <2>2, <2>3
<1>4. ASSUME NEW p \in 0 .. n - 1, NEW q \in 0 .. n - 1, nxt2[p] >= 0, nxt2[p] = nxt2[q]
      PROVE  p = q
  <2>1. p # right /\ q # right
    BY <1>1, <1>4
  <2>2. \A r \in 0 .. n - 1 : nxt[r] = after /\ after >= 0 => r = right
    BY <1>1, <1>2 DEF Links
  <2>3. CASE p = left \/ q = left
    BY <1>1, <1>4, <2>1, <2>2, <2>3
  <2>4. CASE p # left /\ q # left
    <3>1. nxt[p] >= 0 /\ nxt[p] = nxt[q]
      BY <1>1, <1>4, <2>1, <2>4
    <3> QED BY <3>1 DEF Links
  <2> QED BY <2>3, <2>4
<1>5. Links(n, nxt2)
  BY <1>1, <1>2, <1>3, <1>4 DEF Links
<1> QED BY <1>5 DEF nxt2

\* The pair is read at `left' and nowhere before, and the new token is not in it.
LeftmostMerge(S, n, tok, nxt, left, pair, new) ==
  /\ tok \in [0 .. n - 1 -> S] /\ Links(n, nxt)
  /\ left \in 0 .. n - 1 /\ HasPair(tok, nxt, pair, left)
  /\ \A q \in 0 .. left - 1 : ~HasPair(tok, nxt, pair, q)
  /\ new \in S /\ tok[left] # new /\ tok[nxt[left]] # new

\* Joining all of the pair's occurrences gives the same before and after.
LEMMA JoinMerged ==
  ASSUME NEW S, NEW n, NEW tok, NEW nxt, NEW left, NEW pair, NEW new,
         LeftmostMerge(S, n, tok, nxt, left, pair, new),
         NEW tok2, tok2 = MergedTokens(tok, left, new),
         NEW nxt2, nxt2 = MergedLinks(nxt, left),
         NEW p \in 0 .. n - 1, nxt2[p] # Consumed
  PROVE  JoinAll(ReadFrom(tok2, nxt2, p), pair, new) = JoinAll(ReadFrom(tok, nxt, p), pair, new)
<1> USE DEF End, Consumed
<1>given. /\ tok \in [0 .. n - 1 -> S] /\ Links(n, nxt)
          /\ left \in 0 .. n - 1 /\ HasPair(tok, nxt, pair, left)
          /\ \A q \in 0 .. left - 1 : ~HasPair(tok, nxt, pair, q)
          /\ new \in S /\ tok[left] # new /\ tok[nxt[left]] # new
  BY DEF LeftmostMerge
<1> USE <1>given
<1> DEFINE right == nxt[left]
           after == nxt[right]
           R(q) == ReadFrom(tok, nxt, q)
           R2(q) == ReadFrom(tok2, nxt2, q)
           J(q) == JoinAll(R(q), pair, new)
           J2(q) == JoinAll(R2(q), pair, new)
<1>0. nxt[left] >= 0 /\ pair = <<tok[left], tok[right]>>
  BY DEF HasPair
<1>1. /\ right \in left + 1 .. n - 1
      /\ after \in ((right + 1 .. n - 1) \union {End})
      /\ nxt2[left] = after
      /\ nxt2[right] = Consumed
      /\ \A q \in (0 .. n - 1) \ {left, right} : nxt2[q] = nxt[q]
      /\ \A q \in 0 .. n - 1 : nxt2[q] # Consumed <=> nxt[q] # Consumed /\ q # right
  BY <1>0, MergedFacts
<1>2. Links(n, nxt2)
  BY <1>0, LinksMerged
<1>3. /\ tok2 \in [0 .. n - 1 -> S] /\ tok2[left] = new
      /\ \A q \in (0 .. n - 1) \ {left} : tok2[q] = tok[q]
  BY DEF MergedTokens
<1>4. n \in Nat /\ nxt[left] = right /\ nxt[right] = after
  BY DEF Links
<1>5. /\ R(End) = <<>>
      /\ \A q \in 0 .. n - 1 : nxt[q] # Consumed => R(q) = <<tok[q]>> \o R(nxt[q])
  <2>1. ReadsOn(S, n, tok, nxt)
    BY ReadHead
  <2> QED BY <2>1 DEF ReadsOn
<1>6. /\ R2(End) = <<>>
      /\ \A q \in 0 .. n - 1 : nxt2[q] # Consumed => R2(q) = <<tok2[q]>> \o R2(nxt2[q])
  <2>1. ReadsOn(S, n, tok2, nxt2)
    BY <1>2, <1>3, ReadHead
  <2> QED BY <2>1 DEF ReadsOn
<1>7. /\ J(End) = <<>>
      /\ \A q \in 0 .. n - 1 : nxt[q] # Consumed =>
           J(q) = IF HasPair(tok, nxt, pair, q)
                  THEN <<new>> \o J(nxt[nxt[q]]) ELSE <<tok[q]>> \o J(nxt[q])
  <2>1. JoinsOn(n, tok, nxt, pair, new)
    BY JoinRead
  <2> QED BY <2>1 DEF JoinsOn
<1>8. /\ J2(End) = <<>>
      /\ \A q \in 0 .. n - 1 : nxt2[q] # Consumed =>
           J2(q) = IF HasPair(tok2, nxt2, pair, q)
                   THEN <<new>> \o J2(nxt2[nxt2[q]]) ELSE <<tok2[q]>> \o J2(nxt2[q])
  <2>1. JoinsOn(n, tok2, nxt2, pair, new)
    BY <1>2, <1>3, JoinRead
  <2> QED BY <2>1 DEF JoinsOn
<1>9. \A q : R2(q) = R(q) => J2(q) = J(q)
  OBVIOUS
<1> HIDE DEF J, J2, R, R2, right, after
<1>10. \A q \in left + 1 .. n - 1 : nxt2[q] # Consumed => R2(q) = R(q)
  <2> DEFINE T == {q \in 0 .. n - 1 : q > left /\ nxt2[q] # Consumed => R2(q) = R(q)}
  <2>1. ASSUME NEW q \in 0 .. n - 1, \A k \in q + 1 .. n - 1 : k \in T PROVE q \in T
    <3> SUFFICES ASSUME q > left, nxt2[q] # Consumed PROVE R2(q) = R(q)
      OBVIOUS
    <3>1. q # left /\ q # right /\ nxt2[q] = nxt[q] /\ nxt[q] # Consumed /\ tok2[q] = tok[q]
      BY <1>1, <1>3, <1>4
    <3>2. R2(nxt[q]) = R(nxt[q])
      <4>1. CASE nxt[q] = End
        BY <1>5, <1>6, <4>1
      <4>2. CASE nxt[q] # End
        <5>1. nxt[q] \in q + 1 .. n - 1 /\ nxt2[nxt[q]] # Consumed
          BY <1>2, <3>1, <4>2 DEF Links
        <5> QED BY <1>4, <2>1, <5>1
      <4> QED BY <4>1, <4>2
    <3> QED BY <1>5, <1>6, <3>1, <3>2
  <2>2. 0 .. n - 1 \subseteq T
    <3> HIDE DEF T
    <3> QED BY <1>4, <2>1, Backwards
  <2> QED BY <1>4, <2>2
<1>11. J2(left) = J(left)
  <2>1. J(left) = <<new>> \o J(after)
    <3>1. nxt[left] # Consumed
      BY <1>0
    <3> QED BY <1>4, <1>7, <3>1
  <2>2. J2(left) = <<new>> \o J2(after)
    <3>1. ~HasPair(tok2, nxt2, pair, left)
      <4>1. <<tok2[left], tok2[nxt2[left]]>> # <<tok[left], tok[right]>>
        BY <1>3
      <4> QED BY <1>0, <4>1 DEF HasPair
    <3>2. nxt2[left] # Consumed
      BY <1>1, <1>4
    <3> QED BY <1>1, <1>3, <1>8, <3>1, <3>2
  <2>3. J2(after) = J(after)
    <3>1. CASE after = End
      BY <1>7, <1>8, <3>1
    <3>2. CASE after # End
      <4>1. after \in left + 1 .. n - 1
        BY <1>1, <1>4, <3>2
      <4>2. nxt2[after] # Consumed
        <5>1. after \in 0 .. n - 1 /\ nxt2[left] >= 0
          BY <1>1, <3>2, <4>1
        <5> QED BY <1>1, <1>2, <5>1 DEF Links
      <4> QED BY <1>9, <1>10, <4>1, <4>2
    <3> QED BY <3>1, <3>2
  <2> QED BY <2>1, <2>2, <2>3
<1>12. 0 .. n - 1 \subseteq {q \in 0 .. n - 1 : nxt2[q] # Consumed => J2(q) = J(q)}
  <2> DEFINE T == {q \in 0 .. n - 1 : nxt2[q] # Consumed => J2(q) = J(q)}
  <2>1. ASSUME NEW q \in 0 .. n - 1, \A k \in q + 1 .. n - 1 : k \in T PROVE q \in T
    <3> SUFFICES ASSUME nxt2[q] # Consumed PROVE J2(q) = J(q)
      OBVIOUS
    <3>1. CASE q = left
      BY <1>11, <3>1
    <3>2. CASE q > left
      <4>1. q \in left + 1 .. n - 1
        BY <1>4, <3>2
      <4> QED BY <1>9, <1>10, <4>1
    <3>3. CASE q < left
      <4>1. q # right /\ q # left /\ nxt2[q] = nxt[q] /\ nxt[q] # Consumed /\ tok2[q] = tok[q]
        BY <1>1, <1>3, <1>4, <3>3
      <4>2. ~HasPair(tok, nxt, pair, q)
        BY <1>4, <3>3
      <4>3. ~HasPair(tok2, nxt2, pair, q)
        <5> SUFFICES ASSUME nxt[q] >= 0, <<tok[q], tok2[nxt[q]]>> = pair PROVE FALSE
          BY <4>1 DEF HasPair
        <5>1. nxt[q] # left
          <6>1. tok2[nxt[q]] = tok[right]
            BY <1>0
          <6> QED BY <1>3, <6>1 DEF right
        <5>2. nxt[q] \in 0 .. n - 1
          BY <4>1 DEF Links
        <5>3. tok2[nxt[q]] = tok[nxt[q]]
          BY <1>3, <5>1, <5>2
        <5> QED BY <4>2, <5>3 DEF HasPair
      <4>4. J2(nxt[q]) = J(nxt[q])
        <5>1. CASE nxt[q] = End
          BY <1>7, <1>8, <5>1
        <5>2. CASE nxt[q] # End
          <6>1. nxt[q] \in q + 1 .. n - 1 /\ nxt2[nxt[q]] # Consumed
            BY <1>2, <4>1, <5>2 DEF Links
          <6> QED BY <1>4, <2>1, <6>1
        <5> QED BY <5>1, <5>2
      <4> QED BY <1>7, <1>8, <4>1, <4>2, <4>3, <4>4
    <3> QED BY <1>4, <3>1, <3>2, <3>3
  <2> HIDE DEF T
  <2>2. 0 .. n - 1 \subseteq T
    BY <1>4, <2>1, Backwards
  <2> QED BY <2>2 DEF T
<1>13. J2(p) = J(p)
  BY <1>12
<1> QED BY <1>13 DEF J, J2, R, R2

-----------------------------------------------------------------------------
(* Applying the merges rank by rank. *)

\* `u' gives what `seq' is after each of the merges.
IsChain(u, ms, seq) ==
  /\ u[0] = seq
  /\ \A k \in 1 .. Len(ms) : u[k] = JoinAll(u[k - 1], ms[k], ByteCount + k - 1)

\* Sequences that are the same after some merges stay the same.
Meeting(ms, u, a, v, b, r) ==
  /\ Len(ms) \in Nat /\ r \in 0 .. Len(ms)
  /\ IsChain(u, ms, a) /\ IsChain(v, ms, b)
  /\ u[r] = v[r]

LEMMA ChainsMeet ==
  ASSUME NEW ms, NEW u, NEW a, NEW v, NEW b, NEW r, Meeting(ms, u, a, v, b, r)
  PROVE  \A k \in r .. Len(ms) : u[k] = v[k]
<1>given. /\ Len(ms) \in Nat /\ r \in 0 .. Len(ms)
          /\ IsChain(u, ms, a) /\ IsChain(v, ms, b)
          /\ u[r] = v[r]
  BY DEF Meeting
<1> USE <1>given
<1> DEFINE T == {k \in 0 .. Len(ms) : k >= r => u[k] = v[k]}
<1>1. 0 \in T
  OBVIOUS
<1>2. ASSUME NEW i \in 1 .. Len(ms), i - 1 \in T PROVE i \in T
  <2> SUFFICES ASSUME i >= r PROVE u[i] = v[i]
    OBVIOUS
  <2>1. CASE i = r
    BY <2>1
  <2>2. CASE i # r
    <3>1. u[i - 1] = v[i - 1]
      BY <1>2, <2>2
    <3> QED BY <3>1 DEF IsChain
  <2> QED BY <2>1, <2>2
<1>3. 0 .. Len(ms) \subseteq T
  <2> HIDE DEF T
  <2> QED BY <1>1, <1>2, UpTo
<1> QED BY <1>3

\* Merges of pairs that are not there change nothing.
Staying(ms, u, a, r) ==
  /\ Len(ms) \in Nat /\ r \in 0 .. Len(ms)
  /\ IsChain(u, ms, a)
  /\ \A k \in 1 .. r : JoinAll(a, ms[k], ByteCount + k - 1) = a

LEMMA ChainStays ==
  ASSUME NEW ms, NEW u, NEW a, NEW r, Staying(ms, u, a, r)
  PROVE  u[r] = a
<1>given. /\ Len(ms) \in Nat /\ r \in 0 .. Len(ms)
          /\ IsChain(u, ms, a)
          /\ \A k \in 1 .. r : JoinAll(a, ms[k], ByteCount + k - 1) = a
  BY DEF Staying
<1> USE <1>given
<1> DEFINE T == {k \in 0 .. r : u[k] = a}
<1>1. 0 \in T
  BY DEF IsChain
<1>2. ASSUME NEW i \in 1 .. r, i - 1 \in T PROVE i \in T
  <2>1. u[i] = JoinAll(u[i - 1], ms[i], ByteCount + i - 1)
    BY DEF IsChain
  <2>2. u[i - 1] = a
    BY <1>2
  <2>3. u[i] = a
    BY <2>1, <2>2
  <2> QED BY <2>3
<1>3. 0 .. r \subseteq T
  <2>1. r \in Nat
    OBVIOUS
  <2> HIDE DEF T
  <2> QED BY <1>1, <1>2, <2>1, UpTo
<1> QED BY <1>3

\* The recursive definition in Canonical has a solution: Canonical is the end of a chain.
IsCanonical(bytes) ==
  \E u \in [0 .. Len(merges) -> Seq(Nat)] :
    IsChain(u, merges, bytes) /\ Canonical(bytes) = u[Len(merges)]

LEMMA CanonicalIsChain ==
  ASSUME NEW bytes \in Seq(Nat), Len(merges) \in Nat
  PROVE  IsCanonical(bytes)
<1> USE SizesAssumption
<1> DEFINE D == 0 .. Len(merges)
           one(f, r) == IF r = 0 THEN bytes ELSE JoinAll(f[r - 1], merges[r], ByteCount + r - 1)
           body == [f \in [D -> Seq(Nat)] |-> [r \in D |-> one(f, r)]]
           rank == [r \in D |-> r]
<1>1. ASSUME NEW f \in [D -> Seq(Nat)], NEW r \in D PROVE one(f, r) \in Seq(Nat)
  <2>1. CASE r # 0
    <3>1. f[r - 1] \in Seq(Nat) /\ ByteCount + r - 1 \in Nat
      BY <2>1
    <3>2. JoinAll(f[r - 1], merges[r], ByteCount + r - 1) \in Seq(Nat)
      BY <3>1, JoinType
    <3> QED BY <2>1, <3>2
  <2> QED BY <2>1
<1>2. body \in [[D -> Seq(Nat)] -> [D -> Seq(Nat)]]
  <2> HIDE DEF one
  <2> QED BY <1>1
<1>3. rank \in [D -> 0 .. Len(merges)]
  OBVIOUS
<1>4. ASSUME NEW g \in [D -> Seq(Nat)], NEW h \in [D -> Seq(Nat)], NEW d \in D,
             \A e \in D : rank[e] < rank[d] => g[e] = h[e]
      PROVE  body[g][d] = body[h][d]
  <2>1. one(g, d) = one(h, d)
    <3>1. CASE d = 0
      BY <3>1
    <3>2. CASE d # 0
      <4>1. d - 1 \in D /\ d - 1 < d
        BY <3>2
      <4>2. g[d - 1] = h[d - 1]
        BY <1>4, <4>1
      <4> QED BY <3>2, <4>2
    <3> QED BY <3>1, <3>2
  <2> HIDE DEF one
  <2> QED BY <2>1
<1>5. Recursive(D, Seq(Nat), Len(merges), rank, body)
  <2>1. Seq(Nat) # {}
    OBVIOUS
  <2> HIDE DEF D, body, rank
  <2> QED BY <1>2, <1>3, <1>4, <2>1 DEF Recursive
<1>6. \E f \in [D -> Seq(Nat)] : f = body[f]
  <2> HIDE DEF D, body, rank
  <2> QED BY <1>5, RecursionWellDefined
<1>7. PICK f \in [D -> Seq(Nat)] : f = [r \in D |-> one(f, r)]
  <2> HIDE DEF D, one
  <2> QED BY <1>6
<1> DEFINE upTo == CHOOSE g : g = [r \in D |-> one(g, r)]
<1>8. upTo = [r \in D |-> one(upTo, r)]
  <2> HIDE DEF D, one
  <2> QED BY <1>7
<1>9. Canonical(bytes) = upTo[Len(merges)]
  BY DEF Canonical
<1> HIDE DEF upTo
<1>10. ASSUME NEW g, g = [r \in D |-> one(g, r)] PROVE IsChain(g, merges, bytes)
  <2>1. \A r \in D : g[r] = one(g, r)
    <3> HIDE DEF one
    <3> QED BY <1>10
  <2>2. g[0] = bytes
    <3>1. 0 \in D
      OBVIOUS
    <3> QED BY <2>1, <3>1
  <2>3. ASSUME NEW k \in 1 .. Len(merges)
        PROVE  g[k] = JoinAll(g[k - 1], merges[k], ByteCount + k - 1)
    <3>1. k \in D /\ k # 0
      OBVIOUS
    <3> QED BY <2>1, <3>1
  <2> QED BY <2>2, <2>3 DEF IsChain
<1>11. IsChain(f, merges, bytes) /\ IsChain(upTo, merges, bytes)
  BY <1>7, <1>8, <1>10
<1>12. upTo[Len(merges)] = f[Len(merges)]
  <2>1. 0 \in 0 .. Len(merges) /\ upTo[0] = f[0] /\ Len(merges) \in 0 .. Len(merges)
    BY <1>11 DEF IsChain
  <2>2. \A k \in 0 .. Len(merges) : upTo[k] = f[k]
    <3>1. Meeting(merges, upTo, bytes, f, bytes, 0)
      BY <1>11, <2>1 DEF Meeting
    <3> QED BY <3>1, ChainsMeet
  <2> QED BY <2>1, <2>2
<1> QED BY <1>9, <1>11, <1>12 DEF IsCanonical

\* The pair of rank r is read at `left' and nowhere before, and no pair of a lower rank anywhere.
LowestMerge(n, tok, nxt, left, r) ==
  /\ tok \in [0 .. n - 1 -> Nat] /\ Links(n, nxt)
  /\ Len(merges) \in Nat
  /\ \A k \in 1 .. Len(merges) : merges[k] \in (0 .. ByteCount + k - 2) \X (0 .. ByteCount + k - 2)
  /\ r \in 0 .. Len(merges) - 1
  /\ left \in 0 .. n - 1 /\ HasPair(tok, nxt, merges[r + 1], left)
  /\ \A q \in 0 .. left - 1 : ~HasPair(tok, nxt, merges[r + 1], q)
  /\ \A k \in 1 .. r : \A q \in 0 .. n - 1 : ~HasPair(tok, nxt, merges[k], q)

\* Then merging it does not change what the list comes to.
LEMMA CanonicalMerged ==
  ASSUME NEW n, NEW tok, NEW nxt, NEW left, NEW r, LowestMerge(n, tok, nxt, left, r),
         NEW tok2, tok2 = MergedTokens(tok, left, ByteCount + r),
         NEW nxt2, nxt2 = MergedLinks(nxt, left),
         0 \in 0 .. n - 1, nxt2[0] # Consumed
  PROVE  Canonical(ReadFrom(tok2, nxt2, 0)) = Canonical(ReadFrom(tok, nxt, 0))
<1>given. /\ tok \in [0 .. n - 1 -> Nat] /\ Links(n, nxt)
          /\ Len(merges) \in Nat
          /\ \A k \in 1 .. Len(merges) :
               merges[k] \in (0 .. ByteCount + k - 2) \X (0 .. ByteCount + k - 2)
          /\ r \in 0 .. Len(merges) - 1
          /\ left \in 0 .. n - 1 /\ HasPair(tok, nxt, merges[r + 1], left)
          /\ \A q \in 0 .. left - 1 : ~HasPair(tok, nxt, merges[r + 1], q)
          /\ \A k \in 1 .. r : \A q \in 0 .. n - 1 : ~HasPair(tok, nxt, merges[k], q)
  BY DEF LowestMerge
<1> USE <1>given, SizesAssumption
<1> DEFINE new == ByteCount + r
           right == nxt[left]
           a == ReadFrom(tok, nxt, 0)
           b == ReadFrom(tok2, nxt2, 0)
<1>1. /\ right \in left + 1 .. n - 1
      /\ nxt2 \in [0 .. n - 1 -> (0 .. n - 1) \union {End, Consumed}]
      /\ nxt2[left] = nxt[right]
      /\ nxt2[right] = Consumed
      /\ \A q \in (0 .. n - 1) \ {left, right} : nxt2[q] = nxt[q]
      /\ \A q \in 0 .. n - 1 : nxt2[q] # Consumed <=> nxt[q] # Consumed /\ q # right
  BY MergedFacts DEF HasPair
<1>2. Links(n, nxt2) /\ n \in Nat
  BY LinksMerged DEF HasPair, Links
<1>3. /\ tok2 \in [0 .. n - 1 -> Nat] /\ tok2[left] = new
      /\ \A q \in (0 .. n - 1) \ {left} : tok2[q] = tok[q]
  BY DEF MergedTokens
<1>4. nxt[0] # Consumed
  BY <1>1
<1>5. a \in Seq(Nat) /\ b \in Seq(Nat)
  <2>1. ReadsOn(Nat, n, tok, nxt) /\ ReadsOn(Nat, n, tok2, nxt2)
    BY <1>2, <1>3, ReadHead
  <2> QED BY <1>4, <2>1 DEF ReadsOn
<1>6. ASSUME NEW k \in 1 .. r + 1, NEW q \in 0 .. n - 1, HasPair(tok2, nxt2, merges[k], q)
      PROVE  HasPair(tok, nxt, merges[k], q)
  <2>1. PICK x \in 0 .. ByteCount + k - 2, y \in 0 .. ByteCount + k - 2 : merges[k] = <<x, y>>
    <3>1. k \in 1 .. Len(merges)
      OBVIOUS
    <3>2. merges[k] \in (0 .. ByteCount + k - 2) \X (0 .. ByteCount + k - 2)
      BY <3>1
    <3> QED BY ONLY <3>2
  <2>2. x # new /\ y # new
    OBVIOUS
  <2>3. nxt2[q] >= 0 /\ tok2[q] = x /\ tok2[nxt2[q]] = y
    BY <1>6, <2>1 DEF HasPair
  <2>4. q # left /\ q # right /\ nxt2[q] # left
    BY <1>1, <1>3, <2>2, <2>3 DEF Consumed
  <2>5. nxt[q] = nxt2[q] /\ nxt[q] \in 0 .. n - 1 /\ tok[q] = x
    <3>1. nxt[q] = nxt2[q] /\ tok2[q] = tok[q]
      BY <1>1, <1>3, <2>4
    <3>2. nxt2[q] \in (0 .. n - 1) \union {End, Consumed}
      BY <1>1
    <3> QED BY <2>3, <3>1, <3>2 DEF End, Consumed
  <2>6. tok[nxt[q]] = y
    BY <1>3, <2>3, <2>4, <2>5
  <2> QED BY <2>1, <2>3, <2>5, <2>6 DEF HasPair
<1>7. ASSUME NEW k \in 1 .. r
      PROVE  JoinAll(a, merges[k], ByteCount + k - 1) = a /\ JoinAll(b, merges[k], ByteCount + k - 1) = b
  <2>1. /\ \A q \in 0 .. n - 1 : ~HasPair(tok, nxt, merges[k], q)
        /\ \A q \in 0 .. n - 1 : ~HasPair(tok2, nxt2, merges[k], q)
    <3>1. k \in 1 .. r + 1
      OBVIOUS
    <3> QED BY <1>6, <3>1
  <2>2. ByteCount + k - 1 \in Nat
    OBVIOUS
  <2>3. /\ tok \in [0 .. n - 1 -> Nat] /\ Links(n, nxt) /\ 0 \in 0 .. n - 1 /\ nxt[0] # Consumed
        /\ tok2 \in [0 .. n - 1 -> Nat] /\ Links(n, nxt2) /\ nxt2[0] # Consumed
    BY <1>2, <1>3, <1>4
  <2>4. JoinAll(a, merges[k], ByteCount + k - 1) = a
    <3>1. NoOccurrence(Nat, n, tok, nxt, merges[k], ByteCount + k - 1, 0)
      BY ONLY <2>1, <2>2, <2>3 DEF NoOccurrence
    <3> QED BY <3>1, JoinNone
  <2>5. JoinAll(b, merges[k], ByteCount + k - 1) = b
    <3>1. NoOccurrence(Nat, n, tok2, nxt2, merges[k], ByteCount + k - 1, 0)
      BY ONLY <2>1, <2>2, <2>3 DEF NoOccurrence
    <3> QED BY <3>1, JoinNone
  <2> QED BY <2>4, <2>5
<1>8. JoinAll(a, merges[r + 1], new) = JoinAll(b, merges[r + 1], new)
  <2>1. tok[left] # new /\ tok[right] # new
    <3>1. PICK x \in 0 .. ByteCount + r - 1, y \in 0 .. ByteCount + r - 1 : merges[r + 1] = <<x, y>>
      <4>1. r + 1 \in 1 .. Len(merges) /\ ByteCount + (r + 1) - 2 = ByteCount + r - 1
        OBVIOUS
      <4>2. merges[r + 1] \in (0 .. ByteCount + (r + 1) - 2) \X (0 .. ByteCount + (r + 1) - 2)
        BY <4>1
      <4> QED BY <4>1, <4>2
    <3>2. tok[left] = x /\ tok[right] = y
      BY <3>1 DEF HasPair
    <3> QED BY <3>1, <3>2
  <2>2. new \in Nat
    OBVIOUS
  <2>3. tok2 = MergedTokens(tok, left, new)
    OBVIOUS
  <2>4. /\ tok \in [0 .. n - 1 -> Nat] /\ Links(n, nxt) /\ 0 \in 0 .. n - 1
        /\ HasPair(tok, nxt, merges[r + 1], left) /\ left \in 0 .. n - 1
        /\ \A q \in 0 .. left - 1 : ~HasPair(tok, nxt, merges[r + 1], q)
        /\ nxt2[0] # Consumed /\ nxt2 = MergedLinks(nxt, left)
    OBVIOUS
  <2> HIDE DEF new
  <2>5. JoinAll(b, merges[r + 1], new) = JoinAll(a, merges[r + 1], new)
    <3>1. LeftmostMerge(Nat, n, tok, nxt, left, merges[r + 1], new)
      BY ONLY <2>1, <2>2, <2>4 DEF LeftmostMerge, right
    <3> QED BY <2>3, <3>1, JoinMerged
  <2> QED BY <2>5
<1> HIDE DEF a, b
<1>9. PICK u \in [0 .. Len(merges) -> Seq(Nat)] :
        IsChain(u, merges, a) /\ Canonical(a) = u[Len(merges)]
  BY <1>5, CanonicalIsChain DEF IsCanonical
<1>10. PICK v \in [0 .. Len(merges) -> Seq(Nat)] :
        IsChain(v, merges, b) /\ Canonical(b) = v[Len(merges)]
  BY <1>5, CanonicalIsChain DEF IsCanonical
<1>11. u[r] = a /\ v[r] = b
  <2>1. r \in 0 .. Len(merges) /\ Len(merges) \in Nat
    OBVIOUS
  <2>2. /\ \A k \in 1 .. r : JoinAll(a, merges[k], ByteCount + k - 1) = a
        /\ \A k \in 1 .. r : JoinAll(b, merges[k], ByteCount + k - 1) = b
    BY <1>7
  <2>3. Staying(merges, u, a, r) /\ Staying(merges, v, b, r)
    BY <1>9, <1>10, <2>1, <2>2 DEF Staying
  <2> QED BY <2>3, ChainStays
<1>12. u[r + 1] = v[r + 1]
  <2>1. r + 1 \in 1 .. Len(merges) /\ (r + 1) - 1 = r /\ ByteCount + (r + 1) - 1 = new
    OBVIOUS
  <2>2. u[r + 1] = JoinAll(u[(r + 1) - 1], merges[r + 1], ByteCount + (r + 1) - 1)
    BY ONLY <1>9, <2>1, Zenon DEF IsChain
  <2>3. v[r + 1] = JoinAll(v[(r + 1) - 1], merges[r + 1], ByteCount + (r + 1) - 1)
    BY ONLY <1>10, <2>1, Zenon DEF IsChain
  <2> QED BY <1>8, <1>11, <2>1, <2>2, <2>3
<1>13. u[Len(merges)] = v[Len(merges)]
  <2>1. /\ r + 1 \in 0 .. Len(merges) /\ Len(merges) \in r + 1 .. Len(merges)
        /\ Len(merges) \in Nat
    OBVIOUS
  <2>2. \A k \in r + 1 .. Len(merges) : u[k] = v[k]
    <3> DEFINE s == r + 1
    <3>1. Meeting(merges, u, a, v, b, s)
      BY <1>9, <1>10, <1>12, <2>1 DEF Meeting
    <3> HIDE DEF s
    <3>2. \A k \in s .. Len(merges) : u[k] = v[k]
      BY ONLY <3>1, ChainsMeet
    <3> QED BY <3>2 DEF s
  <2> QED BY <2>1, <2>2
<1> QED BY <1>9, <1>10, <1>13 DEF a, b

-----------------------------------------------------------------------------
(* A fresh list. *)

LEMMA FreshLinks ==
  ASSUME NEW S, NEW bytes \in Seq(S), NEW lasts, Len(bytes) > 0 => Len(bytes) - 1 \in lasts
  PROVE  /\ Links(Len(bytes), FreshNext(bytes, lasts))
         /\ FreshToken(bytes) \in [0 .. Len(bytes) - 1 -> S]
         /\ \A p \in 0 .. Len(bytes) - 1 :
              /\ FreshToken(bytes)[p] = bytes[p + 1]
              /\ FreshNext(bytes, lasts)[p] = IF p \in lasts THEN End ELSE p + 1
<1> USE DEF End, Consumed
<1> DEFINE n == Len(bytes)
           nxt == FreshNext(bytes, lasts)
           tok == FreshToken(bytes)
<1>1. n \in Nat
  BY LenProperties
<1>2. /\ DOMAIN nxt = 0 .. n - 1 /\ DOMAIN tok = 0 .. n - 1
      /\ nxt = [p \in 0 .. n - 1 |-> IF p \in lasts THEN End ELSE p + 1]
      /\ tok = [p \in 0 .. n - 1 |-> bytes[p + 1]]
  BY DEF FreshNext, FreshToken, Positions
<1> HIDE DEF nxt, tok, n
<1>3. \A p \in 0 .. n - 1 : /\ tok[p] = bytes[p + 1]
                            /\ nxt[p] = IF p \in lasts THEN End ELSE p + 1
  BY <1>2
<1>4. tok \in [0 .. n - 1 -> S]
  <2>1. ASSUME NEW p \in 0 .. n - 1 PROVE bytes[p + 1] \in S
    <3>1. p + 1 \in 1 .. Len(bytes)
      BY <1>1 DEF n
    <3> QED BY <3>1, ElementOfSeq
  <2> QED BY <1>2, <2>1
<1>5. \A p \in 0 .. n - 1 : p \notin lasts => p + 1 \in 0 .. n - 1
  BY <1>1 DEF n
<1>6. nxt \in [0 .. n - 1 -> (0 .. n - 1) \union {End, Consumed}]
  BY <1>2, <1>5
<1>7. Links(n, nxt)
  <2>1. ASSUME NEW p \in 0 .. n - 1, nxt[p] >= 0 PROVE nxt[p] > p /\ nxt[nxt[p]] # Consumed
    <3>1. nxt[p] = p + 1 /\ p + 1 \in 0 .. n - 1
      BY <1>3, <1>5, <2>1
    <3> QED BY <1>1, <1>3, <3>1
  <2>2. ASSUME NEW p \in 0 .. n - 1, NEW q \in 0 .. n - 1, nxt[p] >= 0, nxt[p] = nxt[q]
        PROVE  p = q
    BY <1>1, <1>3, <2>2
  <2> QED BY <1>1, <1>6, <2>1, <2>2 DEF Links
<1> QED BY <1>3, <1>4, <1>7 DEF nxt, tok, n

\* From any position on it reads as the bytes up to where it is broken next.
FreshPart(S, bytes, lasts, first, last) ==
  /\ bytes \in Seq(S)
  /\ Len(bytes) - 1 \in lasts
  /\ last \in 0 .. Len(bytes) - 1 /\ last \in lasts
  /\ first \in 0 .. last /\ \A p \in first .. last - 1 : p \notin lasts

LEMMA FreshReads ==
  ASSUME NEW S, NEW bytes, NEW lasts, NEW first, NEW last, FreshPart(S, bytes, lasts, first, last)
  PROVE  ReadFrom(FreshToken(bytes), FreshNext(bytes, lasts), first) =
           SubSeq(bytes, first + 1, last + 1)
<1>given. /\ bytes \in Seq(S)
          /\ Len(bytes) - 1 \in lasts
          /\ last \in 0 .. Len(bytes) - 1 /\ last \in lasts
          /\ first \in 0 .. last /\ \A p \in first .. last - 1 : p \notin lasts
  BY DEF FreshPart
<1> USE <1>given
<1> DEFINE n == Len(bytes)
           nxt == FreshNext(bytes, lasts)
           tok == FreshToken(bytes)
           R(p) == ReadFrom(tok, nxt, p)
<1>1. n \in Nat /\ last \in 0 .. n - 1
  BY LenProperties
<1>2. /\ Links(n, nxt) /\ tok \in [0 .. n - 1 -> S]
      /\ \A p \in 0 .. n - 1 : /\ tok[p] = bytes[p + 1]
                               /\ nxt[p] = IF p \in lasts THEN End ELSE p + 1
  BY FreshLinks
<1>3. /\ R(End) = <<>>
      /\ \A p \in 0 .. n - 1 : nxt[p] # Consumed => R(p) = <<tok[p]>> \o R(nxt[p])
  <2>1. ReadsOn(S, n, tok, nxt)
    BY <1>2, ReadHead
  <2> QED BY <2>1 DEF ReadsOn
<1>0. \A p \in 0 .. n - 1 : p + 1 \in 1 .. Len(bytes)
  BY <1>1
<1> HIDE DEF nxt, tok, n, R
<1> DEFINE T == {p \in 0 .. n - 1 : p \in first .. last => R(p) = SubSeq(bytes, p + 1, last + 1)}
<1>4. ASSUME NEW p \in 0 .. n - 1, \A k \in p + 1 .. n - 1 : k \in T PROVE p \in T
  <2> SUFFICES ASSUME p \in first .. last PROVE R(p) = SubSeq(bytes, p + 1, last + 1)
    OBVIOUS
  <2>0. p \in Nat /\ bytes[p + 1] \in S /\ p + 1 \in 1 .. Len(bytes)
    BY <1>0, ElementOfSeq
  <2>1. CASE p = last
    <3>1. nxt[p] = End /\ tok[p] = bytes[p + 1]
      BY <1>2, <2>1
    <3>5. nxt[p] # Consumed
      BY <3>1 DEF End, Consumed
    <3>2. R(p) = <<bytes[p + 1]>> \o <<>>
      BY <1>3, <3>1, <3>5
    <3>3. SubSeq(bytes, p + 1, p + 1) = <<bytes[p + 1]>>
      BY <2>0, SubSeqOfOne
    <3>4. <<bytes[p + 1]>> \in Seq(S)
      BY <2>0
    <3> QED BY <2>1, <3>2, <3>3, <3>4, ConcatEmptySeq
  <2>2. CASE p # last
    <3>1. nxt[p] = p + 1 /\ tok[p] = bytes[p + 1] /\ p + 1 \in p + 1 .. n - 1
      <4>1. p \in first .. last - 1 /\ p + 1 \in p + 1 .. n - 1
        BY <1>1, <2>2
      <4> QED BY <1>2, <4>1
    <3>2. R(p + 1) = SubSeq(bytes, p + 1 + 1, last + 1)
      <4>1. p + 1 \in first .. last
        BY <1>1, <2>2
      <4>2. p + 1 \in T
        BY <1>4, <3>1
      <4> QED BY <4>1, <4>2
    <3>3. R(p) = <<bytes[p + 1]>> \o R(p + 1)
      BY <1>3, <2>0, <3>1 DEF Consumed
    <3>4. last + 1 \in p + 1 .. Len(bytes)
      BY <1>1 DEF n
    <3>5. SubSeq(bytes, p + 1, last + 1) = <<bytes[p + 1]>> \o SubSeq(bytes, p + 1 + 1, last + 1)
      BY <2>0, <3>4, SubSeqRecursiveFirst
    <3> QED BY <3>2, <3>3, <3>5
  <2> QED BY <2>1, <2>2
<1>5. 0 .. n - 1 \subseteq T
  <2> HIDE DEF T
  <2> QED BY <1>1, <1>4, Backwards
<1>6. first \in 0 .. n - 1 /\ first \in first .. last
  BY <1>1
<1>7. R(first) = SubSeq(bytes, first + 1, last + 1)
  BY <1>5, <1>6
<1> QED BY <1>7 DEF R, tok, nxt

-----------------------------------------------------------------------------
(* Encoding is canonical. *)

\* As long as the list is merged it comes to what the text does.
CanonicalInv ==
  /\ pc = "encode" /\ text # <<>> => Canonical(TokensFrom(0)) = Canonical(text)
  /\ pc = "encoded" => tokens = Canonical(text)

LEMMA TokensAreRead ==
  ASSUME NEW p
  PROVE  TokensFrom(p) = ReadFrom(token, next, p) /\ (TokensFrom(p))' = ReadFrom(token', next', p)
BY DEF TokensFrom, ReadFrom

\* A pair of the model has a rank, that of its first occurrence there.
LEMMA FirstRank ==
  ASSUME Len(merges) \in Nat, NEW k \in 1 .. Len(merges)
  PROVE  \E s \in RankOf(merges[k]) : s <= k - 1
<1> DEFINE Ranks == {s \in 0 .. Len(merges) - 1 : merges[s + 1] = merges[k]}
<1>1. k - 1 \in Ranks /\ Ranks \in SUBSET Nat
  OBVIOUS
<1>2. PICK s \in Ranks : \A t \in Ranks : s <= t
  BY <1>1, LeastNat
<1>3. ASSUME NEW t \in 0 .. s - 1 PROVE merges[t + 1] # merges[k]
  <2>1. t \in 0 .. Len(merges) - 1 /\ ~(s <= t)
    BY <1>2
  <2> QED BY <1>2, <2>1
<1>4. s \in RankOf(merges[k])
  BY <1>2, <1>3 DEF RankOf
<1> QED BY <1>1, <1>2, <1>4

\* The encoder's list is linked as the lemmas about reading ask for.
LEMMA ListLinks ==
  ASSUME ListTypes, Linked
  PROVE  Links(Len(text), next)
<1> DEFINE n == Len(text)
<1>1. /\ n \in Nat /\ Places = 0 .. n - 1
      /\ next \in [0 .. n - 1 -> (0 .. n - 1) \union {End, Consumed}]
  BY LenProperties DEF ListTypes, Places, Positions
<1> HIDE DEF n
<1>2. ASSUME NEW p \in 0 .. n - 1, next[p] >= 0
      PROVE  next[p] > p /\ next[next[p]] # Consumed /\ previous[next[p]] = p
  <2>1. Live(p) /\ next[p] # End
    BY <1>1, <1>2 DEF Live, End, Consumed
  <2> QED BY <1>1, <2>1 DEF Linked, Live
<1>3. ASSUME NEW p \in 0 .. n - 1, NEW q \in 0 .. n - 1, next[p] >= 0, next[p] = next[q]
      PROVE  p = q
  BY <1>2, <1>3
<1> QED BY <1>1, <1>2, <1>3 DEF Links, n

LEMMA EncodeCanonical ==
  ASSUME IInv, NEW bytes \in Seq(Byte), Encode(bytes)
  PROVE  CanonicalInv'
<1>1. /\ pc' = "encode" /\ text' = bytes
      /\ token' = FreshToken(bytes)
      /\ next' = FreshNext(bytes, {Len(bytes) - 1})
      /\ UNCHANGED merges
  BY DEF Encode, modelVars
<1>2. ASSUME bytes # <<>> PROVE ReadFrom(token', next', 0) = bytes
  <2>1. Len(bytes) \in Nat \ {0}
    BY <1>2, EmptySeq
  <2>2. FreshPart(Byte, bytes, {Len(bytes) - 1}, 0, Len(bytes) - 1)
    BY <2>1 DEF FreshPart
  <2>3. ReadFrom(FreshToken(bytes), FreshNext(bytes, {Len(bytes) - 1}), 0) =
          SubSeq(bytes, 0 + 1, Len(bytes) - 1 + 1)
    <3> DEFINE last == Len(bytes) - 1
               first == 0
               lasts == {last}
    <3>1. FreshPart(Byte, bytes, lasts, first, last)
      BY <2>2
    <3> HIDE DEF last, first, lasts
    <3>2. ReadFrom(FreshToken(bytes), FreshNext(bytes, lasts), first) =
            SubSeq(bytes, first + 1, last + 1)
      BY ONLY <3>1, FreshReads
    <3> QED BY <3>2 DEF last, first, lasts
  <2>4. 0 + 1 = 1 /\ Len(bytes) - 1 + 1 = Len(bytes)
    BY <2>1
  <2>5. SubSeq(bytes, 1, Len(bytes)) = bytes
    BY SubSeqFull
  <2> QED BY <1>1, <2>3, <2>4, <2>5
<1>3. ASSUME bytes # <<>> PROVE (Canonical(TokensFrom(0)))' = Canonical(text)'
  <2>1. (TokensFrom(0))' = text'
    BY <1>1, <1>2, <1>3, TokensAreRead
  <2> QED BY <1>1, <2>1 DEF Canonical
<1> QED BY <1>1, <1>3 DEF CanonicalInv

LEMMA SkipCanonical ==
  ASSUME CanonicalInv, SkipStale
  PROVE  CanonicalInv'
<1>1. pc = "encode" /\ UNCHANGED <<pc, merges, text, token, next>>
  BY DEF SkipStale, modelVars, listVars
<1>2. (TokensFrom(0))' = TokensFrom(0)
  BY <1>1, TokensAreRead
<1>3. (Canonical(TokensFrom(0)))' = Canonical(TokensFrom(0)) /\ Canonical(text)' = Canonical(text)
  BY <1>1, <1>2 DEF Canonical
<1> QED BY <1>1, <1>3 DEF CanonicalInv

LEMMA MergeCanonical ==
  ASSUME IInv, IInv', CanonicalInv, Merge
  PROVE  CanonicalInv'
<1> USE SizesAssumption
<1>1. PICK candidate \in candidates :
        /\ Top(candidate) /\ Fits(candidate)
        /\ token' = TokenAfter(candidate[2], ByteCount + candidate[1])
        /\ next' = NextAfter(candidate[2])
  BY DEF Merge
<1>2. pc = "encode" /\ pc' = "encode" /\ UNCHANGED <<merges, text>>
  BY DEF Merge, modelVars
<1>3. /\ ModelInv /\ ListTypes /\ Linked /\ NoMergeMissed
      /\ text # <<>> => Live(0)'
  BY <1>2 DEF IInv, EncoderInv, Encoding
<1> DEFINE r == candidate[1]
           left == candidate[2]
           n == Len(text)
<1>4. /\ r \in 0 .. Len(merges) - 1
      /\ left \in 0 .. n - 1
      /\ candidate = <<r, left>>
      /\ n \in Nat /\ Len(merges) \in Nat
      /\ Places = 0 .. n - 1
  BY <1>3, LenProperties DEF ListTypes, ModelInv, Places, Positions
<1>5. /\ token \in [0 .. n - 1 -> Nat]
      /\ next \in [0 .. n - 1 -> (0 .. n - 1) \union {End, Consumed}]
  <2>1. Known \subseteq Nat
    BY <1>4 DEF Known
  <2> QED BY <1>3, <1>4, <2>1 DEF ListTypes
<1>6. Links(n, next)
  BY <1>3, ListLinks
<1>7. HasPair(token, next, merges[r + 1], left)
  <2>1. /\ next[left] >= 0 /\ token[left] = merges[r + 1][1] /\ token[next[left]] = merges[r + 1][2]
    BY <1>1 DEF Fits
  <2>2. merges[r + 1] = <<merges[r + 1][1], merges[r + 1][2]>>
    <3>1. merges[r + 1] \in (0 .. ByteCount + r - 1) \X (0 .. ByteCount + r - 1)
      BY <1>3, <1>4 DEF ModelInv
    <3> QED BY <3>1
  <2> QED BY <2>1, <2>2 DEF HasPair
<1> HIDE DEF r, left, n
\* A pair that occurs is queued under the first of its ranks.
<1>8. ASSUME NEW k \in 1 .. Len(merges), NEW q \in 0 .. n - 1, HasPair(token, next, merges[k], q)
      PROVE  k - 1 > r \/ (k - 1 = r /\ q >= left)
  <2>1. PICK s \in RankOf(merges[k]) : s <= k - 1
    BY <1>4, FirstRank
  <2>2. <<s, q>> \in candidates
    <3>1. PairAt(q) = merges[k] /\ next[q] >= 0 /\ q \in DOMAIN next
      BY <1>5, <1>8 DEF HasPair, PairAt
    <3> QED BY <1>2, <1>3, <2>1, <3>1 DEF NoMergeMissed
  <2>3. r < s \/ (r = s /\ left <= q)
    <3>1. \/ candidate[1] < s
          \/ candidate[1] = s /\ candidate[2] <= q
      BY <1>1, <2>2 DEF Top
    <3> QED BY <3>1 DEF r, left
  <2>4. s \in Nat /\ r \in Nat /\ left \in Nat
    BY <1>4 DEF RankOf
  <2> QED BY <2>1, <2>3, <2>4
<1>9. \A q \in 0 .. left - 1 : ~HasPair(token, next, merges[r + 1], q)
  <2> SUFFICES ASSUME NEW q \in 0 .. left - 1, HasPair(token, next, merges[r + 1], q) PROVE FALSE
    OBVIOUS
  <2> DEFINE k == r + 1
  <2>1. k \in 1 .. Len(merges) /\ q \in 0 .. n - 1 /\ ~(k - 1 > r) /\ ~(q >= left)
    BY <1>4
  <2>2. HasPair(token, next, merges[k], q)
    OBVIOUS
  <2> HIDE DEF k
  <2> QED BY ONLY <1>8, <2>1, <2>2
<1>10. \A k \in 1 .. r : \A q \in 0 .. n - 1 : ~HasPair(token, next, merges[k], q)
  <2> SUFFICES ASSUME NEW k \in 1 .. r, NEW q \in 0 .. n - 1, HasPair(token, next, merges[k], q)
               PROVE  FALSE
    OBVIOUS
  <2>1. k \in 1 .. Len(merges) /\ ~(k - 1 > r) /\ k - 1 # r
    BY <1>4
  <2> QED BY <1>8, <2>1
<1>11. \A k \in 1 .. Len(merges) : merges[k] \in (0 .. ByteCount + k - 2) \X (0 .. ByteCount + k - 2)
  <2> SUFFICES ASSUME NEW k \in 1 .. Len(merges)
               PROVE  merges[k] \in (0 .. ByteCount + k - 2) \X (0 .. ByteCount + k - 2)
    OBVIOUS
  <2>1. k - 1 \in 0 .. Len(merges) - 1 /\ k - 1 + 1 = k /\ ByteCount + (k - 1) - 1 = ByteCount + k - 2
    BY <1>4
  <2>2. merges[k - 1 + 1] \in
          (0 .. ByteCount + (k - 1) - 1) \X (0 .. ByteCount + (k - 1) - 1)
    BY <1>3, <2>1 DEF ModelInv
  <2> QED BY <2>1, <2>2
<1>12. token' = MergedTokens(token, left, ByteCount + r) /\ next' = MergedLinks(next, left)
  BY <1>1 DEF TokenAfter, NextAfter, MergedTokens, MergedLinks, r, left
<1>13. text # <<>> /\ 0 \in 0 .. n - 1 /\ next'[0] # Consumed
  <2>1. n # 0
    BY <1>4
  <2>2. text # <<>>
    BY <2>1 DEF n
  <2> QED BY <1>3, <1>4, <2>1, <2>2 DEF Live
<1>14. Canonical(ReadFrom(token', next', 0)) = Canonical(ReadFrom(token, next, 0))
  <2>1. LowestMerge(n, token, next, left, r)
    BY <1>4, <1>5, <1>6, <1>7, <1>9, <1>10, <1>11 DEF LowestMerge
  <2> QED BY <1>12, <1>13, <2>1, CanonicalMerged
<1>15. (Canonical(TokensFrom(0)))' = Canonical(ReadFrom(token', next', 0))
  <2>1. (TokensFrom(0))' = ReadFrom(token', next', 0)
    BY TokensAreRead
  <2> QED BY <1>2, <2>1 DEF Canonical
<1>16. Canonical(text)' = Canonical(text)
  BY <1>2 DEF Canonical
<1>17. TokensFrom(0) = ReadFrom(token, next, 0)
  BY TokensAreRead
<1> QED BY <1>2, <1>13, <1>14, <1>15, <1>16, <1>17 DEF CanonicalInv

LEMMA CollectCanonical ==
  ASSUME IInv, CanonicalInv, Collect
  PROVE  CanonicalInv'
<1> USE SizesAssumption
<1>1. /\ pc = "encode" /\ pc' = "encoded" /\ candidates = {}
      /\ tokens' = IF text = <<>> THEN <<>> ELSE TokensFrom(0)
      /\ UNCHANGED <<merges, text>>
  BY DEF Collect, modelVars
<1>2. /\ ModelInv /\ ListTypes /\ Linked /\ NoMergeMissed
      /\ text # <<>> => Live(0)
  BY <1>1 DEF IInv, EncoderInv, Encoding
<1>3. Len(merges) \in Nat /\ Len(text) \in Nat /\ Places = 0 .. Len(text) - 1
  BY <1>2, LenProperties DEF ModelInv, ListTypes, Places, Positions
<1>4. ASSUME NEW a \in Seq(Nat),
             \A k \in 1 .. Len(merges) : JoinAll(a, merges[k], ByteCount + k - 1) = a
      PROVE  Canonical(a) = a
  <2>1. PICK u \in [0 .. Len(merges) -> Seq(Nat)] :
          IsChain(u, merges, a) /\ Canonical(a) = u[Len(merges)]
    BY <1>3, CanonicalIsChain DEF IsCanonical
  <2>2. Staying(merges, u, a, Len(merges))
    BY <1>3, <1>4, <2>1 DEF Staying
  <2> QED BY <2>1, <2>2, ChainStays
<1>5. CASE text = <<>>
  <2>1. <<>> \in Seq(Nat)
    OBVIOUS
  <2>2. ASSUME NEW k \in 1 .. Len(merges) PROVE JoinAll(<<>>, merges[k], ByteCount + k - 1) = <<>>
    <3>1. ByteCount + k - 1 \in Nat
      OBVIOUS
    <3> QED BY <2>1, <3>1, JoinType
  <2>3. Canonical(<<>>) = <<>>
    BY <1>4, <2>1, <2>2
  <2>4. Canonical(text)' = Canonical(text)
    BY <1>1 DEF Canonical
  <2> QED BY <1>1, <1>5, <2>3, <2>4 DEF CanonicalInv
<1>6. CASE text # <<>>
  <2> DEFINE n == Len(text)
             a == ReadFrom(token, next, 0)
  <2>1. /\ token \in [0 .. n - 1 -> Nat]
        /\ next \in [0 .. n - 1 -> (0 .. n - 1) \union {End, Consumed}]
    <3>1. Known \subseteq Nat
      BY <1>3 DEF Known
    <3> QED BY <1>2, <1>3, <3>1 DEF ListTypes
  <2>2. Links(n, next)
    BY <1>2, <1>3, <2>1, ListLinks
  <2>3. 0 \in 0 .. n - 1 /\ next[0] # Consumed
    BY <1>2, <1>6, <2>1 DEF Live
  <2>4. a \in Seq(Nat)
    <3>1. ReadsOn(Nat, n, token, next)
      BY <2>1, <2>2, ReadHead
    <3> QED BY <2>3, <3>1 DEF ReadsOn
  <2>5. ASSUME NEW k \in 1 .. Len(merges) PROVE JoinAll(a, merges[k], ByteCount + k - 1) = a
    <3>1. ASSUME NEW q \in 0 .. n - 1, HasPair(token, next, merges[k], q) PROVE FALSE
      <4>1. PICK s \in RankOf(merges[k]) : TRUE
        BY <1>3, FirstRank
      <4>2. PairAt(q) = merges[k] /\ next[q] >= 0 /\ q \in DOMAIN next
        BY <2>1, <3>1 DEF HasPair, PairAt
      <4>3. <<s, q>> \in candidates
        BY <1>1, <1>2, <4>1, <4>2 DEF NoMergeMissed
      <4> QED BY <1>1, <4>3
    <3>2. ByteCount + k - 1 \in Nat
      BY <1>3
    <3>3. NoOccurrence(Nat, n, token, next, merges[k], ByteCount + k - 1, 0)
      BY <2>1, <2>2, <2>3, <3>1, <3>2 DEF NoOccurrence
    <3> QED BY <3>3, JoinNone
  <2> HIDE DEF a
  <2>6. Canonical(a) = a
    BY <1>4, <2>4, <2>5
  <2>7. TokensFrom(0) = a
    BY TokensAreRead DEF a
  <2>8. Canonical(text)' = Canonical(text)
    BY <1>1 DEF Canonical
  <2> QED BY <1>1, <1>6, <2>6, <2>7, <2>8 DEF CanonicalInv
<1> QED BY <1>5, <1>6

LEMMA CanonicalStep ==
  ASSUME IInv, IInv', ArticlesInv, CanonicalInv, [Next]_vars
  PROVE  CanonicalInv'
<1>1. CASE StartTraining \/ CountPairs \/ SelectPair \/ NoPairLeft \/ MergeOccurrence
             \/ FinishMerge \/ GivenFile \/ DropOutdated \/ Parsed \/ Parse
  <2>1. pc' \notin {"encode", "encoded"}
    BY <1>1 DEF StartTraining, CountPairs, SelectPair, NoPairLeft, MergeOccurrence,
       FinishMerge, GivenFile, DropOutdated, Parsed, Parse, ParseMerge, encodingVars
  <2> QED BY <2>1 DEF CanonicalInv
<1>2. CASE \E bytes \in OtherTexts \union Range(articles) : EncodeText(bytes)
  <2>1. PICK bytes \in OtherTexts \union Range(articles) : Encode(bytes)
    BY <1>2 DEF EncodeText
  <2>2. bytes \in Seq(Byte)
    <3>1. \A i \in DOMAIN articles : articles[i] \in Seq(Byte)
      BY ElementOfSeq, LenProperties DEF ArticlesInv
    <3> QED
      BY <2>1, <3>1, TextsAssumption DEF Range
  <2> QED BY <2>1, <2>2, EncodeCanonical
<1>3. CASE EncodeStep
  BY <1>3, SkipCanonical, MergeCanonical, CollectCanonical DEF EncodeStep
<1>4. CASE Generate
  <2>1. pc' \notin {"encode", "encoded"}
    BY <1>4 DEF Generate, StartGeneration, GenerateToken, StepFails, StepsExhausted
  <2> QED BY <2>1 DEF CanonicalInv
<1>5. CASE UNCHANGED vars
  <2>1. UNCHANGED <<pc, merges, text, token, next, tokens>>
    BY <1>5 DEF vars, encodingVars, modelVars, listVars
  <2>2. (TokensFrom(0))' = TokensFrom(0)
    BY <2>1, TokensAreRead
  <2>3. (Canonical(TokensFrom(0)))' = Canonical(TokensFrom(0)) /\ Canonical(text)' = Canonical(text)
    BY <2>1, <2>2 DEF Canonical
  <2> QED BY <2>1, <2>3 DEF CanonicalInv
<1> QED
  BY <1>1, <1>2, <1>3, <1>4, <1>5 DEF Next

\* The encoder with its priority queue of candidates, the outdated ones among
\* them, cuts every text as merging rank by rank from left to right does, for
\* every model file that parses (Model::encode).
THEOREM QueueIsCanonical == Spec => []EncodingIsCanonical
<1>1. Init => CanonicalInv
  BY DEF Init, CanonicalInv
<1>2. IInv /\ IInv' /\ ArticlesInv /\ CanonicalInv /\ [Next]_vars => CanonicalInv'
  BY CanonicalStep
<1>3. CanonicalInv => EncodingIsCanonical
  BY DEF CanonicalInv, EncodingIsCanonical
<1> QED
  BY <1>1, <1>2, <1>3, EncoderSafe, ArticlesTyped, PTL DEF Spec

-----------------------------------------------------------------------------
(* Generation. *)

\* What the tokens of an answer spell, one after the other.
Spellings(ts) == [i \in DOMAIN ts |-> expansions[ts[i] + 1]]

AnswerInv ==
  /\ pc \in Encoding \union {"ready"} => Len(merges) = MergeCount
  /\ pc \in {"encoded", "generate", "generated"} => tokens \in Seq(Nat)
  /\ pc \in {"generate", "generated"} =>
       /\ generatedTokens \in Seq(Token)
       /\ generated \in Seq(Byte)
       /\ Len(generated) <= MaximumBytes
       /\ generated = FlattenSeq(Spellings(generatedTokens))
       /\ context = ContextOf(tokens \o generatedTokens)

\* The window after one more token: one in front is dropped.
LEMMA ContextShifts ==
  ASSUME NEW h \in Seq(Nat), NEW c \in Nat
  PROVE  Append(Tail(ContextOf(h)), c) = ContextOf(Append(h, c))
<1> USE SizesAssumption
<1> DEFINE n == ContextTokens
           a == ContextOf(h)
           b == ContextOf(Append(h, c))
<1>1. /\ Len(h) \in Nat /\ \A i \in 1 .. Len(h) : h[i] \in Nat
      /\ Append(h, c) \in Seq(Nat) /\ Len(Append(h, c)) = Len(h) + 1
      /\ \A i \in 1 .. Len(h) : Append(h, c)[i] = h[i]
      /\ Append(h, c)[Len(h) + 1] = c
  BY AppendProperties, ElementOfSeq, LenProperties
<1>2. /\ a = [i \in 1 .. n |-> IF Len(h) - n + i >= 1 THEN h[Len(h) - n + i] ELSE 0]
      /\ b = [i \in 1 .. n |-> IF Len(h) + 1 - n + i >= 1
                               THEN Append(h, c)[Len(h) + 1 - n + i] ELSE 0]
  BY <1>1 DEF ContextOf
<1> HIDE DEF a, b
<1>3. n \in Nat /\ n >= 1
  OBVIOUS
<1>4. a \in Seq(Nat) /\ Len(a) = n /\ \A i \in 1 .. n : a[i] = IF Len(h) - n + i >= 1 THEN h[Len(h) - n + i] ELSE 0
  <2>1. ASSUME NEW i \in 1 .. n
        PROVE  (IF Len(h) - n + i >= 1 THEN h[Len(h) - n + i] ELSE 0) \in Nat
    <3>1. Len(h) - n + i >= 1 => Len(h) - n + i \in 1 .. Len(h)
      BY <1>1
    <3> QED BY <1>1, <3>1
  <2>2. a \in [1 .. n -> Nat]
    BY <1>2, <2>1
  <2> QED BY <1>2, <1>3, <2>2
<1>5. b \in Seq(Nat) /\ Len(b) = n /\ \A i \in 1 .. n : b[i] = IF Len(h) + 1 - n + i >= 1 THEN Append(h, c)[Len(h) + 1 - n + i] ELSE 0
  <2>1. ASSUME NEW i \in 1 .. n
        PROVE  (IF Len(h) + 1 - n + i >= 1 THEN Append(h, c)[Len(h) + 1 - n + i] ELSE 0) \in Nat
    <3>1. Len(h) + 1 - n + i >= 1 => Len(h) + 1 - n + i \in 1 .. Len(Append(h, c))
      BY <1>1
    <3> QED BY <1>1, <3>1, ElementOfSeq
  <2>2. b \in [1 .. n -> Nat]
    BY <1>2, <2>1
  <2>3. b \in Seq(Nat) /\ Len(b) = n
    BY <1>3, <2>2
  <2>4. \A i \in 1 .. n : b[i] = IF Len(h) + 1 - n + i >= 1 THEN Append(h, c)[Len(h) + 1 - n + i] ELSE 0
    BY ONLY <1>2
  <2> QED BY <2>3, <2>4
<1>6. /\ Tail(a) \in Seq(Nat) /\ Len(Tail(a)) = n - 1
      /\ \A i \in 1 .. n - 1 : Tail(a)[i] = a[i + 1]
  <2>1. a # <<>>
    BY <1>3, <1>4
  <2> QED BY <1>4, <2>1, HeadTailProperties
<1> DEFINE d == Append(Tail(a), c)
<1>7. /\ d \in Seq(Nat) /\ Len(d) = n
      /\ \A i \in 1 .. n - 1 : d[i] = a[i + 1]
      /\ d[n] = c
  <2>1. /\ d \in Seq(Nat) /\ Len(d) = Len(Tail(a)) + 1
        /\ \A i \in 1 .. Len(Tail(a)) : d[i] = Tail(a)[i]
        /\ d[Len(Tail(a)) + 1] = c
    BY <1>6, AppendProperties
  <2> HIDE DEF d
  <2>2. Len(Tail(a)) + 1 = n
    BY <1>3, <1>6
  <2> QED BY <1>3, <1>6, <2>1, <2>2
<1> HIDE DEF d
<1>8. ASSUME NEW i \in 1 .. n PROVE d[i] = b[i]
  <2>1. CASE i = n
    <3>1. Len(h) + 1 - n + i = Len(h) + 1 /\ Len(h) + 1 >= 1
      BY <1>1, <2>1
    <3> QED BY <1>1, <1>5, <1>7, <2>1, <3>1
  <2>2. CASE i # n
    <3>1. i \in 1 .. n - 1 /\ i + 1 \in 1 .. n /\ Len(h) - n + (i + 1) = Len(h) + 1 - n + i
      BY <1>1, <1>3, <2>2
    <3>2. d[i] = IF Len(h) + 1 - n + i >= 1 THEN h[Len(h) + 1 - n + i] ELSE 0
      BY <1>4, <1>7, <3>1
    <3>3. Len(h) + 1 - n + i >= 1 => Len(h) + 1 - n + i \in 1 .. Len(h)
      BY <1>1, <3>1
    <3> QED BY <1>1, <1>5, <3>2, <3>3
  <2> QED BY <2>1, <2>2
<1>9. d = b
  BY <1>5, <1>7, <1>8, SeqEqual
<1> QED BY <1>9 DEF a, b, d

\* What one more token spells comes last.
LEMMA AnswerGrows ==
  ASSUME ModelInv, Len(merges) = MergeCount, NEW ts \in Seq(Token), NEW c \in Token
  PROVE  /\ expansions[c + 1] \in Seq(Byte)
         /\ Spellings(ts) \in Seq(Seq(Byte))
         /\ FlattenSeq(Spellings(Append(ts, c))) = FlattenSeq(Spellings(ts)) \o expansions[c + 1]
<1> USE SizesAssumption
<1>1. /\ expansions \in Seq(Seq(Byte)) /\ Len(expansions) = ByteCount + MergeCount
  BY DEF ModelInv
<1>2. ASSUME NEW t \in Token PROVE expansions[t + 1] \in Seq(Byte)
  <2>1. t + 1 \in 1 .. Len(expansions)
    BY <1>1 DEF Token
  <2> QED BY <1>1, <2>1, ElementOfSeq
<1> DEFINE us == Append(ts, c)
<1>3. /\ Len(ts) \in Nat /\ DOMAIN ts = 1 .. Len(ts) /\ \A i \in 1 .. Len(ts) : ts[i] \in Token
      /\ us \in Seq(Token) /\ Len(us) = Len(ts) + 1 /\ us[Len(ts) + 1] = c
      /\ \A i \in 1 .. Len(ts) : us[i] = ts[i]
      /\ DOMAIN us = 1 .. Len(ts) + 1
  BY AppendProperties, ElementOfSeq, LenProperties
<1> HIDE DEF us
<1> DEFINE a == Spellings(ts)
           b == Spellings(us)
<1>4. a = [i \in 1 .. Len(ts) |-> expansions[ts[i] + 1]]
  BY <1>3 DEF Spellings
<1>5. b = [i \in 1 .. Len(ts) + 1 |-> expansions[us[i] + 1]]
  BY <1>3 DEF Spellings
<1> HIDE DEF a, b
<1>6. a \in Seq(Seq(Byte)) /\ Len(a) = Len(ts) /\ \A i \in 1 .. Len(ts) : a[i] = expansions[ts[i] + 1]
  <2>1. a \in [1 .. Len(ts) -> Seq(Byte)]
    BY <1>2, <1>3, <1>4
  <2> QED BY <1>3, <1>4, <2>1
<1>7. b \in Seq(Seq(Byte)) /\ Len(b) = Len(ts) + 1 /\ \A i \in 1 .. Len(ts) + 1 : b[i] = expansions[us[i] + 1]
  <2>1. ASSUME NEW i \in 1 .. Len(ts) + 1 PROVE us[i] \in Token
    BY <1>3, ElementOfSeq
  <2>2. b \in [1 .. Len(ts) + 1 -> Seq(Byte)]
    BY <1>2, <1>5, <2>1
  <2> QED BY <1>3, <1>5, <2>2
<1> DEFINE d == Append(a, expansions[c + 1])
<1>8. /\ d \in Seq(Seq(Byte)) /\ Len(d) = Len(ts) + 1
      /\ \A i \in 1 .. Len(ts) : d[i] = a[i]
      /\ d[Len(ts) + 1] = expansions[c + 1]
  BY <1>2, <1>6, AppendProperties
<1> HIDE DEF d
<1>9. ASSUME NEW i \in 1 .. Len(ts) + 1 PROVE d[i] = b[i]
  <2>1. CASE i \in 1 .. Len(ts)
    <3>1. us[i] = ts[i]
      BY <1>3, <2>1
    <3> QED BY <1>6, <1>7, <1>8, <2>1, <3>1
  <2>2. CASE i = Len(ts) + 1
    BY <1>3, <1>7, <1>8, <2>2
  <2> QED BY <1>3, <2>1, <2>2
<1>10. d = b
  BY <1>7, <1>8, <1>9, SeqEqual
<1>11. FlattenSeq(d) = FlattenSeq(a) \o expansions[c + 1]
  BY <1>2, <1>6, FlattenAppend DEF d
<1> QED BY <1>2, <1>6, <1>10, <1>11 DEF a, b, us

LEMMA AnswerCollected ==
  ASSUME IInv, AnswerInv, Collect
  PROVE  AnswerInv'
<1> USE SizesAssumption
<1>1. /\ pc = "encode" /\ pc' = "encoded"
      /\ tokens' = IF text = <<>> THEN <<>> ELSE TokensFrom(0)
      /\ UNCHANGED merges
  BY DEF Collect, modelVars
<1>2. ModelInv /\ ListTypes /\ Linked /\ (text # <<>> => Live(0))
  BY <1>1 DEF IInv, EncoderInv, Encoding
<1>3. Len(merges) \in Nat /\ Len(text) \in Nat /\ Places = 0 .. Len(text) - 1
  BY <1>2, LenProperties DEF ModelInv, ListTypes, Places, Positions
<1>4. tokens' \in Seq(Nat)
  <2>1. CASE text = <<>>
    BY <1>1, <2>1
  <2>2. CASE text # <<>>
    <3> DEFINE n == Len(text)
    <3>1. /\ token \in [0 .. n - 1 -> Nat]
          /\ next \in [0 .. n - 1 -> (0 .. n - 1) \union {End, Consumed}]
      <4>1. Known \subseteq Nat
        BY <1>3 DEF Known
      <4> QED BY <1>2, <1>3, <4>1 DEF ListTypes
    <3>2. Links(n, next)
      BY <1>2, ListLinks
    <3>3. 0 \in 0 .. n - 1 /\ next[0] # Consumed
      BY <1>2, <2>2, <3>1 DEF Live
    <3>4. ReadsOn(Nat, n, token, next)
      BY <3>1, <3>2, ReadHead
    <3>5. ReadFrom(token, next, 0) \in Seq(Nat)
      BY <3>3, <3>4 DEF ReadsOn
    <3> QED BY <1>1, <2>2, <3>5, TokensAreRead
  <2> QED BY <2>1, <2>2
<1> QED BY <1>1, <1>4 DEF AnswerInv, Encoding

LEMMA AnswerStarted ==
  ASSUME AnswerInv, StartGeneration
  PROVE  AnswerInv'
<1> USE SizesAssumption
<1>1. /\ pc = "encoded" /\ pc' = "generate"
      /\ context' = ContextOf(tokens) /\ generated' = <<>> /\ generatedTokens' = <<>>
      /\ UNCHANGED <<merges, expansions, tokens>>
  BY DEF StartGeneration, modelVars
<1>2. tokens \in Seq(Nat) /\ Len(merges) = MergeCount
  BY <1>1 DEF AnswerInv, Encoding
<1>3. tokens \o <<>> = tokens
  BY <1>2, ConcatEmptySeq
<1>4. FlattenSeq(Spellings(generatedTokens))' = <<>>
  <2>1. (Spellings(generatedTokens))' = <<>>
    BY <1>1 DEF Spellings
  <2>2. FlattenSeq(<<>>) = <<>>
    <3>1. <<>> \in Seq(Seq(Nat))
      OBVIOUS
    <3> QED BY <3>1, FlattenType
  <2> QED BY <2>1, <2>2
<1>5. <<>> \in Seq(Token) /\ <<>> \in Seq(Byte) /\ Len(<<>>) = 0
  OBVIOUS
<1> QED BY <1>1, <1>2, <1>3, <1>4, <1>5 DEF AnswerInv, ContextOf

LEMMA AnswerContinued ==
  ASSUME IInv, AnswerInv, NEW c \in Token, GenerateToken(c)
  PROVE  AnswerInv'
<1> USE SizesAssumption
<1>1. /\ pc = "generate"
      /\ UNCHANGED <<merges, expansions, tokens>>
  BY DEF GenerateToken, modelVars
<1>2. /\ tokens \in Seq(Nat) /\ Len(merges) = MergeCount
      /\ generatedTokens \in Seq(Token)
      /\ generated \in Seq(Byte)
      /\ Len(generated) <= MaximumBytes
      /\ generated = FlattenSeq(Spellings(generatedTokens))
      /\ context = ContextOf(tokens \o generatedTokens)
  BY <1>1 DEF AnswerInv, Encoding
<1>3. CASE ~RoomFor(c)
  <2>1. pc' = "generated" /\ UNCHANGED <<context, generated, generatedTokens>>
    BY <1>3 DEF GenerateToken, answerVars
  <2>2. (Spellings(generatedTokens))' = Spellings(generatedTokens)
    BY <1>1, <2>1 DEF Spellings
  <2>3. ContextOf(tokens \o generatedTokens)' = ContextOf(tokens \o generatedTokens)
    BY <1>1, <2>1 DEF ContextOf
  <2> QED BY <1>1, <1>2, <2>1, <2>2, <2>3 DEF AnswerInv
<1>4. CASE RoomFor(c)
  <2>1. /\ generated' = generated \o expansions[c + 1]
        /\ generatedTokens' = Append(generatedTokens, c)
        /\ context' = Append(Tail(context), c)
        /\ pc' = pc
    BY <1>4 DEF GenerateToken
  <2>2. /\ expansions[c + 1] \in Seq(Byte)
        /\ FlattenSeq(Spellings(Append(generatedTokens, c))) =
             FlattenSeq(Spellings(generatedTokens)) \o expansions[c + 1]
    BY <1>2, AnswerGrows DEF IInv
  <2>3. FlattenSeq(Spellings(generatedTokens))' = FlattenSeq(Spellings(Append(generatedTokens, c)))
    <3>1. (Spellings(generatedTokens))' = Spellings(Append(generatedTokens, c))
      BY <1>1, <2>1 DEF Spellings
    <3> QED BY <3>1
  <2>4. generated' \in Seq(Byte) /\ Len(generated') = Len(generated) + Len(expansions[c + 1])
    BY <1>2, <2>1, <2>2, ConcatProperties
  <2>5. Len(generated') <= MaximumBytes
    BY <1>4, <2>4 DEF RoomFor
  <2>6. generatedTokens' \in Seq(Token)
    BY <1>2, <2>1, AppendProperties
  <2>7. context' = (ContextOf(tokens \o generatedTokens))'
    <3>1. Token \subseteq Nat
      BY DEF Token
    <3>2. generatedTokens \in Seq(Nat) /\ c \in Nat
      BY <1>2, <3>1, SeqMonotonic
    <3> DEFINE h == tokens \o generatedTokens
    <3>3. h \in Seq(Nat)
      BY <1>2, <3>2, ConcatProperties
    <3>4. tokens \o Append(generatedTokens, c) = Append(h, c)
      <4>1. Append(generatedTokens, c) = generatedTokens \o <<c>> /\ Append(h, c) = h \o <<c>>
        BY <3>2, <3>3, AppendIsConcat
      <4>2. <<c>> \in Seq(Nat)
        BY <3>2
      <4> QED BY <1>2, <3>2, <4>1, <4>2, ConcatAssociative
    <3>5. Append(Tail(ContextOf(h)), c) = ContextOf(Append(h, c))
      <4> HIDE DEF h
      <4> QED BY <3>2, <3>3, ContextShifts
    <3>6. (ContextOf(tokens \o generatedTokens))' = ContextOf(tokens \o Append(generatedTokens, c))
      BY <1>1, <2>1 DEF ContextOf
    <3> QED BY <1>2, <2>1, <3>4, <3>5, <3>6
  <2> QED BY <1>1, <1>2, <2>1, <2>2, <2>3, <2>4, <2>5, <2>6, <2>7 DEF AnswerInv
<1> QED BY <1>3, <1>4

LEMMA AnswerStep ==
  ASSUME IInv, AnswerInv, [Next]_vars
  PROVE  AnswerInv'
<1>1. CASE StartTraining \/ CountPairs \/ SelectPair \/ NoPairLeft \/ MergeOccurrence
             \/ FinishMerge \/ GivenFile \/ DropOutdated
  <2>1. pc' \notin Encoding \union {"ready"}
    BY <1>1 DEF StartTraining, CountPairs, SelectPair, NoPairLeft, MergeOccurrence,
       FinishMerge, GivenFile, DropOutdated, encodingVars, Encoding
  <2> QED BY <2>1 DEF AnswerInv, Encoding
<1>2. CASE Parse
  <2>1. pc' \notin Encoding \union {"ready"}
    BY <1>2 DEF Parse, ParseMerge, Encoding
  <2> QED BY <2>1 DEF AnswerInv, Encoding
<1>3. CASE Parsed
  <2>1. pc' = "ready" /\ merges' = merges /\ Len(merges) = MergeCount
    BY <1>3 DEF Parsed, modelVars
  <2> QED BY <2>1 DEF AnswerInv
<1>4. CASE \E bytes \in OtherTexts \union Range(articles) : EncodeText(bytes)
  <2>1. pc = "ready" /\ pc' = "encode" /\ merges' = merges
    BY <1>4 DEF EncodeText, Encode, modelVars
  <2> QED BY <2>1 DEF AnswerInv
<1>5. CASE SkipStale \/ Merge
  <2>1. pc = "encode" /\ pc' = "encode" /\ merges' = merges
    BY <1>5 DEF SkipStale, Merge, modelVars
  <2> QED BY <2>1 DEF AnswerInv, Encoding
<1>6. CASE Collect
  BY <1>6, AnswerCollected
<1>7. CASE StartGeneration
  BY <1>7, AnswerStarted
<1>8. CASE \E chosen \in Token : GenerateToken(chosen)
  BY <1>8, AnswerContinued
<1>9. CASE StepFails
  <2>1. pc' = "failed"
    BY <1>9 DEF StepFails
  <2> QED BY <2>1 DEF AnswerInv, Encoding
<1>10. CASE StepsExhausted \/ UNCHANGED vars
  <2>1. /\ UNCHANGED <<merges, expansions, tokens, context, generated, generatedTokens>>
        /\ (pc' = pc \/ (pc = "generate" /\ pc' = "generated"))
    BY <1>10 DEF StepsExhausted, vars, encodingVars, modelVars, answerVars
  <2>2. (Spellings(generatedTokens))' = Spellings(generatedTokens)
    BY <2>1 DEF Spellings
  <2>3. ContextOf(tokens \o generatedTokens)' = ContextOf(tokens \o generatedTokens)
    BY <2>1 DEF ContextOf
  <2> QED BY <2>1, <2>2, <2>3 DEF AnswerInv, Encoding
<1> QED
  BY <1>1, <1>2, <1>3, <1>4, <1>5, <1>6, <1>7, <1>8, <1>9, <1>10 DEF Next, EncodeStep, Generate

\* The answer is never longer than asked for, it is what its tokens spell, and
\* the network has always seen the end of the prompt with the answer so far
\* (NicopediaLmPreparedInference::generate, buildTokenContext).
THEOREM AnswerAsAsked == Spec => []AnswerInContext
<1>1. Init => AnswerInv
  BY DEF Init, AnswerInv, Encoding
<1>2. IInv /\ AnswerInv /\ [Next]_vars => AnswerInv'
  BY AnswerStep
<1>3. AnswerInv => AnswerInContext
  BY DEF AnswerInv, AnswerInContext, Spellings
<1> QED
  BY <1>1, <1>2, <1>3, EncoderSafe, PTL DEF Spec


-----------------------------------------------------------------------------
(* Positions in order, and how often something occurs. *)

Increasing(seq) == \A i, j \in DOMAIN seq : i < j => seq[i] < seq[j]

\* A sequence of what is in S, all of it, in order.
IsInOrder(seq, S) ==
  /\ seq \in Seq(S)
  /\ Increasing(seq)
  /\ \A p \in S : p \in Range(seq)

LEMMA Ordered ==
  ASSUME NEW S \in SUBSET Nat, IsFiniteSet(S)
  PROVE  IsInOrder(InOrder(S), S)
<1> DEFINE Before(p) == {q \in S : q < p}
           f == [p \in S |-> Cardinality(Before(p))]
           N == Cardinality(S)
           seq == InOrder(S)
<1>1. N \in Nat
  BY FS_CardinalityType
<1>2. ASSUME NEW p \in S
      PROVE  /\ IsFiniteSet(Before(p)) /\ f[p] \in Nat
             /\ IsFiniteSet(Before(p) \union {p}) /\ Cardinality(Before(p) \union {p}) = f[p] + 1
  <2>1. Before(p) \in SUBSET S /\ p \notin Before(p)
    OBVIOUS
  <2>2. IsFiniteSet(Before(p))
    BY <2>1, FS_Subset
  <2> HIDE DEF Before
  <2> QED BY <2>1, <2>2, FS_CardinalityType, FS_AddElement
<1>3. ASSUME NEW p \in S, NEW r \in S, p < r PROVE f[p] < f[r]
  <2>1. Before(p) \union {p} \in SUBSET Before(r)
    <3>1. ASSUME NEW q \in Before(p) \union {p} PROVE q \in Before(r)
      <4>1. q \in S /\ q \in Nat /\ p \in Nat /\ r \in Nat /\ (q < p \/ q = p)
        OBVIOUS
      <4>2. q < r
        BY <1>3, <4>1
      <4> QED BY <4>1, <4>2
    <3> HIDE DEF Before
    <3> QED BY <3>1
  <2>2. /\ IsFiniteSet(Before(r)) /\ f[r] = Cardinality(Before(r)) /\ f[r] \in Nat /\ f[p] \in Nat
        /\ Cardinality(Before(p) \union {p}) = f[p] + 1
    BY <1>2
  <2>3. Cardinality(Before(p) \union {p}) <= Cardinality(Before(r))
    <3> HIDE DEF Before
    <3> QED BY <2>1, <2>2, FS_Subset
  <2> HIDE DEF f, Before
  <2> QED BY <2>2, <2>3
<1>4. ASSUME NEW p \in S PROVE f[p] \in 0 .. N - 1
  <2>1. Before(p) \union {p} \in SUBSET S
    OBVIOUS
  <2>2. Cardinality(Before(p) \union {p}) <= N
    <3> HIDE DEF Before
    <3> QED BY <2>1, FS_Subset
  <2>3. Cardinality(Before(p) \union {p}) = f[p] + 1 /\ f[p] \in Nat
    BY <1>2
  <2> HIDE DEF f, Before, N
  <2> QED BY <1>1, <2>2, <2>3
<1>5. \A p, r \in S : f[p] = f[r] => p = r
  <2> SUFFICES ASSUME NEW p \in S, NEW r \in S, f[p] = f[r], p # r PROVE FALSE
    OBVIOUS
  <2>1. f[p] \in Nat /\ f[r] \in Nat
    BY <1>2
  <2>2. p < r \/ r < p
    OBVIOUS
  <2>3. f[p] < f[r] \/ f[r] < f[p]
    <3> HIDE DEF f
    <3> QED BY <1>3, <2>2
  <2> HIDE DEF f
  <2> QED BY <2>1, <2>3
<1>6. \A k \in 0 .. N - 1 : \E p \in S : f[p] = k
  <2> DEFINE T == 0 .. N - 1
  <2>1. IsFiniteSet(T) /\ Cardinality(T) = N
    <3> DEFINE a == 0
               b == N - 1
    <3>1. a \in Int /\ b \in Int /\ b - a + 1 = N /\ (a > b => N = 0)
      BY <1>1
    <3> HIDE DEF a, b
    <3>2. IsFiniteSet(a .. b) /\ Cardinality(a .. b) = IF a > b THEN 0 ELSE b - a + 1
      BY <3>1, FS_Interval
    <3>3. Cardinality(a .. b) = N
      BY <3>1, <3>2
    <3> QED BY <3>2, <3>3 DEF a, b
  <2>2. f \in Injection(S, T)
    <3>1. f \in [S -> T]
      BY <1>4
    <3> HIDE DEF f, T
    <3> QED BY <1>5, <3>1 DEF Injection, IsInjective
  <2>3. f \in Surjection(S, T)
    <3> HIDE DEF f, T
    <3> QED BY <2>1, <2>2, FS_Injection DEF N
  <2> HIDE DEF f
  <2> QED BY <2>3 DEF Surjection
<1>7. /\ DOMAIN seq = 1 .. N
      /\ \A i \in 1 .. N : seq[i] = CHOOSE p \in S : Cardinality({q \in S : q < p}) = i - 1
  BY DEF InOrder
<1>8. ASSUME NEW i \in 1 .. N PROVE seq[i] \in S /\ f[seq[i]] = i - 1
  <2>1. i - 1 \in 0 .. N - 1
    BY <1>1
  <2>2. \E p \in S : Cardinality({q \in S : q < p}) = i - 1
    <3>1. PICK p \in S : f[p] = i - 1
      BY <1>6, <2>1
    <3> QED BY <3>1
  <2>3. seq[i] = CHOOSE p \in S : Cardinality({q \in S : q < p}) = i - 1
    BY <1>7
  <2> HIDE DEF seq
  <2>4. seq[i] \in S /\ Cardinality({q \in S : q < seq[i]}) = i - 1
    BY <2>2, <2>3
  <2> QED BY <2>4
<1>9. ASSUME NEW i \in 1 .. N, NEW j \in 1 .. N, i < j PROVE seq[i] < seq[j]
  <2>1. seq[i] \in S /\ seq[j] \in S /\ f[seq[i]] = i - 1 /\ f[seq[j]] = j - 1
    BY <1>8
  <2> HIDE DEF seq, f
  <2>2. seq[i] # seq[j] /\ ~(seq[j] < seq[i])
    <3>1. seq[j] < seq[i] => f[seq[j]] < f[seq[i]]
      BY <1>3, <2>1
    <3> QED BY <1>1, <1>9, <2>1, <3>1
  <2>3. seq[i] \in Nat /\ seq[j] \in Nat
    BY <2>1
  <2> QED BY <2>2, <2>3
<1>10. ASSUME NEW p \in S PROVE p \in Range(seq)
  <2>1. \E i \in 1 .. N : f[p] = i - 1
    <3>1. f[p] \in 0 .. N - 1
      BY <1>4
    <3>2. \A k \in 0 .. N - 1 : k + 1 \in 1 .. N /\ k = (k + 1) - 1
      BY <1>1
    <3> HIDE DEF f, N
    <3> QED BY <3>1, <3>2
  <2>2. PICK i \in 1 .. N : f[p] = i - 1
    BY <2>1
  <2>3. seq[i] \in S /\ f[seq[i]] = i - 1
    BY <1>8
  <2> HIDE DEF f, seq
  <2>4. seq[i] = p
    BY <1>5, <2>2, <2>3
  <2> QED BY <1>7, <2>4 DEF Range
<1>11. seq \in Seq(S)
  <2> DEFINE one(i) == CHOOSE p \in S : Cardinality({q \in S : q < p}) = i - 1
  <2>1. seq = [i \in 1 .. N |-> one(i)]
    BY DEF InOrder
  <2>2. \A i \in 1 .. N : one(i) \in S
    <3>1. \A i \in 1 .. N : seq[i] = one(i)
      BY <1>7
    <3> HIDE DEF seq, one
    <3> QED BY <1>8, <3>1
  <2> HIDE DEF seq, one
  <2> QED BY <1>1, <2>1, <2>2
<1> HIDE DEF seq, N
<1> QED BY <1>7, <1>9, <1>10, <1>11 DEF IsInOrder, Increasing, seq

\* One more element of a sequence is one more time, or none.
LEMMA TimesAppend ==
  ASSUME NEW S, NEW s \in Seq(S), NEW y \in S, NEW x
  PROVE  /\ Times(x, s \o <<y>>) = Times(x, s) + IF y = x THEN 1 ELSE 0
         /\ Times(x, s) \in Nat
         /\ Times(x, <<>>) = 0
<1> DEFINE n == Len(s)
           t == s \o <<y>>
           A == {i \in DOMAIN s : s[i] = x}
           B == {i \in DOMAIN t : t[i] = x}
<1>1. /\ n \in Nat /\ DOMAIN s = 1 .. n /\ DOMAIN t = 1 .. n + 1
      /\ t[n + 1] = y /\ \A i \in 1 .. n : t[i] = s[i]
  <2>1. t = Append(s, y)
    BY AppendIsConcat
  <2>2. t \in Seq(S) /\ Len(t) = n + 1 /\ t[n + 1] = y /\ \A i \in 1 .. n : t[i] = s[i]
    BY <2>1, AppendProperties
  <2> QED BY <2>2, LenProperties
<1> HIDE DEF t, n
<1>2. IsFiniteSet(A) /\ Cardinality(A) \in Nat
  <2>1. IsFiniteSet(1 .. n) /\ A \in SUBSET (1 .. n)
    BY <1>1, FS_Interval
  <2> HIDE DEF A
  <2> QED BY <2>1, FS_Subset, FS_CardinalityType
<1>3. B = IF y = x THEN A \union {n + 1} ELSE A
  BY <1>1
<1>4. n + 1 \notin A
  BY <1>1
<1>5. Cardinality(B) = Cardinality(A) + IF y = x THEN 1 ELSE 0
  <2> HIDE DEF A, B
  <2>1. Cardinality(A \union {n + 1}) = Cardinality(A) + 1
    BY <1>2, <1>4, FS_AddElement
  <2> QED BY <1>2, <1>3, <2>1
<1>6. Times(x, s) = Cardinality(A) /\ Times(x, s \o <<y>>) = Cardinality(B)
  BY DEF Times, t
<1>7. Times(x, <<>>) = 0
  <2>1. {i \in DOMAIN <<>> : <<>>[i] = x} = {}
    OBVIOUS
  <2> QED BY <2>1, FS_EmptySet DEF Times
<1> QED BY <1>2, <1>5, <1>6, <1>7


-----------------------------------------------------------------------------
(* A merge among its neighbours. *)

\* Between a position and the one it leads to everything is consumed.
Adjacent(n, nxt) ==
  \A p \in 0 .. n - 1 : nxt[p] >= 0 => \A r \in p + 1 .. nxt[p] - 1 : nxt[r] = Consumed

\* The links back are the links forth.
BackLinked(n, nxt, prv) ==
  /\ prv \in [0 .. n - 1 -> (0 .. n - 1) \union {End, Consumed}]
  /\ \A p, q \in 0 .. n - 1 : nxt[p] # Consumed => (prv[p] = q <=> nxt[q] = p)

MergedBacks(nxt, prv, left) ==
  [(IF nxt[nxt[left]] >= 0 THEN [prv EXCEPT ![nxt[nxt[left]]] = left] ELSE prv)
     EXCEPT ![nxt[left]] = Consumed]

LEMMA AdjacentMerged ==
  ASSUME NEW n, NEW nxt, Links(n, nxt), Adjacent(n, nxt), NEW left \in 0 .. n - 1, nxt[left] >= 0
  PROVE  Adjacent(n, MergedLinks(nxt, left))
<1> USE DEF End, Consumed
<1> DEFINE right == nxt[left]
           after == nxt[right]
           nxt2 == MergedLinks(nxt, left)
<1>1. /\ right \in left + 1 .. n - 1
      /\ after \in ((right + 1 .. n - 1) \union {End})
      /\ nxt2 \in [0 .. n - 1 -> (0 .. n - 1) \union {End, Consumed}]
      /\ nxt2[left] = after
      /\ nxt2[right] = Consumed
      /\ \A p \in (0 .. n - 1) \ {left, right} : nxt2[p] = nxt[p]
  BY MergedFacts
<1>2. n \in Nat /\ nxt[left] = right /\ nxt[right] = after
  BY DEF Links
<1> HIDE DEF right, after, nxt2
<1>3. ASSUME NEW p \in 0 .. n - 1, nxt2[p] >= 0, NEW r \in p + 1 .. nxt2[p] - 1
      PROVE  nxt2[r] = Consumed
  <2>1. p # right /\ nxt2[p] \in 0 .. n - 1
    BY <1>1, <1>3
  <2>2. r \in 0 .. n - 1
    BY <1>2, <2>1
  <2>3. CASE p = left
    <3>1. after >= 0 /\ r \in left + 1 .. after - 1
      BY <1>1, <1>3, <2>3
    <3>2. r # right => nxt[r] = Consumed
      <4>1. r \in left + 1 .. right - 1 \/ r = right \/ r \in right + 1 .. after - 1
        BY <1>1, <1>2, <3>1
      <4> QED BY <1>1, <1>2, <3>1, <4>1 DEF Adjacent
    <3>3. r # left
      BY <3>1
    <3> QED BY <1>1, <2>2, <3>2, <3>3
  <2>4. CASE p # left
    <3>1. nxt2[p] = nxt[p]
      BY <1>1, <2>1, <2>4
    <3>2. nxt[r] = Consumed
      BY <1>3, <3>1 DEF Adjacent
    <3>3. r # left
      BY <1>1, <1>2, <3>2
    <3> QED BY <1>1, <2>2, <3>2, <3>3
  <2> QED BY <2>3, <2>4
<1> QED BY <1>3 DEF Adjacent, nxt2

LEMMA BacksMerged ==
  ASSUME NEW n, NEW nxt, NEW prv, Links(n, nxt), BackLinked(n, nxt, prv),
         NEW left \in 0 .. n - 1, nxt[left] >= 0
  PROVE  BackLinked(n, MergedLinks(nxt, left), MergedBacks(nxt, prv, left))
<1> USE DEF End, Consumed
<1> DEFINE right == nxt[left]
           after == nxt[right]
           nxt2 == MergedLinks(nxt, left)
           prv2 == MergedBacks(nxt, prv, left)
<1>1. /\ right \in left + 1 .. n - 1
      /\ after \in ((right + 1 .. n - 1) \union {End})
      /\ nxt2 \in [0 .. n - 1 -> (0 .. n - 1) \union {End, Consumed}]
      /\ nxt2[left] = after
      /\ nxt2[right] = Consumed
      /\ \A p \in (0 .. n - 1) \ {left, right} : nxt2[p] = nxt[p]
      /\ \A p \in 0 .. n - 1 : nxt2[p] # Consumed <=> nxt[p] # Consumed /\ p # right
  BY MergedFacts
<1>2. n \in Nat /\ nxt[left] = right /\ nxt[right] = after
  BY DEF Links
<1>3. prv \in [0 .. n - 1 -> (0 .. n - 1) \union {End, Consumed}]
  BY DEF BackLinked
<1>4. prv2 = [(IF after >= 0 THEN [prv EXCEPT ![after] = left] ELSE prv) EXCEPT ![right] = Consumed]
  BY DEF MergedBacks
<1> HIDE DEF right, after, nxt2, prv2
<1>5. /\ prv2 \in [0 .. n - 1 -> (0 .. n - 1) \union {End, Consumed}]
      /\ after >= 0 => prv2[after] = left
      /\ \A p \in (0 .. n - 1) \ {right, after} : prv2[p] = prv[p]
  <2>1. CASE after >= 0
    BY <1>1, <1>3, <1>4, <2>1
  <2>2. CASE ~(after >= 0)
    BY <1>1, <1>3, <1>4, <2>2
  <2> QED BY <2>1, <2>2
<1>6. ASSUME NEW p \in 0 .. n - 1, NEW q \in 0 .. n - 1, nxt2[p] # Consumed
      PROVE  prv2[p] = q <=> nxt2[q] = p
  <2>1. p # right /\ nxt[p] # Consumed
    BY <1>1, <1>6
  <2>2. CASE p = after
    <3>1. after >= 0 /\ prv2[p] = left
      BY <1>5, <2>2
    <3>2. nxt2[q] = after => q = left
      <4> SUFFICES ASSUME nxt2[q] = after, q # left PROVE FALSE
        OBVIOUS
      <4>1. q # right
        BY <1>1, <3>1
      <4>2. nxt[q] = after
        BY <1>1, <4>1
      <4>3. right \in 0 .. n - 1
        BY <1>1
      <4> QED BY <1>2, <3>1, <4>1, <4>2, <4>3 DEF Links
    <3> QED BY <1>1, <2>2, <3>1, <3>2
  <2>3. CASE p # after
    <3>1. prv2[p] = prv[p]
      BY <1>5, <2>1, <2>3
    <3>2. prv[p] = q <=> nxt[q] = p
      BY <2>1 DEF BackLinked
    <3>3. CASE q = left
      BY <1>1, <1>2, <2>1, <2>3, <3>1, <3>2, <3>3
    <3>4. CASE q = right
      BY <1>1, <1>2, <2>1, <2>3, <3>1, <3>2, <3>4
    <3>5. CASE q # left /\ q # right
      BY <1>1, <3>1, <3>2, <3>5
    <3> QED BY <3>3, <3>4, <3>5
  <2> QED BY <2>2, <2>3
<1> QED BY <1>5, <1>6 DEF BackLinked, nxt2, prv2

\* The pairs that a merge touches: those at its two positions and the one before.
MergeAt(n, tok, nxt, prv, left, pair, new) ==
  /\ Links(n, nxt) /\ BackLinked(n, nxt, prv)
  /\ tok \in [0 .. n - 1 -> Nat] /\ new \in Nat
  /\ left \in 0 .. n - 1 /\ HasPair(tok, nxt, pair, left)

PairsAround(n, tok, nxt, prv, left, pair, new) ==
  LET right == nxt[left]
      before == prv[left]
      after == nxt[right]
      tok2 == MergedTokens(tok, left, new)
      nxt2 == MergedLinks(nxt, left)
  IN /\ right \in left + 1 .. n - 1
     /\ before \in (0 .. left - 1) \union {End, Consumed}
     /\ after \in (right + 1 .. n - 1) \union {End}
     /\ pair = <<tok[left], tok[right]>>
     /\ \A q : /\ \A p \in (0 .. n - 1) \ {before, left, right} :
                    HasPair(tok2, nxt2, q, p) <=> HasPair(tok, nxt, q, p)
               /\ HasPair(tok, nxt, q, left) <=> q = pair
               /\ HasPair(tok, nxt, q, right) <=> (after >= 0 /\ q = <<tok[right], tok[after]>>)
               /\ HasPair(tok2, nxt2, q, left) <=> (after >= 0 /\ q = <<new, tok[after]>>)
               /\ ~HasPair(tok2, nxt2, q, right)
               /\ before >= 0 =>
                    /\ HasPair(tok, nxt, q, before) <=> q = <<tok[before], tok[left]>>
                    /\ HasPair(tok2, nxt2, q, before) <=> q = <<tok[before], new>>

LEMMA AroundMerge ==
  ASSUME NEW n, NEW tok, NEW nxt, NEW prv, NEW left, NEW pair, NEW new,
         MergeAt(n, tok, nxt, prv, left, pair, new)
  PROVE  PairsAround(n, tok, nxt, prv, left, pair, new)
<1> USE DEF End, Consumed
<1>given. /\ Links(n, nxt) /\ BackLinked(n, nxt, prv)
          /\ tok \in [0 .. n - 1 -> Nat] /\ new \in Nat
          /\ left \in 0 .. n - 1 /\ HasPair(tok, nxt, pair, left)
  BY DEF MergeAt
<1> USE <1>given
<1> DEFINE right == nxt[left]
           before == prv[left]
           after == nxt[right]
           tok2 == MergedTokens(tok, left, new)
           nxt2 == MergedLinks(nxt, left)
<1>0. nxt[left] >= 0 /\ pair = <<tok[left], tok[right]>>
  BY DEF HasPair
<1>1. /\ right \in left + 1 .. n - 1
      /\ after \in ((right + 1 .. n - 1) \union {End})
      /\ nxt2[left] = after
      /\ nxt2[right] = Consumed
      /\ \A p \in (0 .. n - 1) \ {left, right} : nxt2[p] = nxt[p]
  BY <1>0, MergedFacts
<1>2. /\ n \in Nat /\ nxt[left] = right /\ nxt[right] = after
      /\ nxt \in [0 .. n - 1 -> (0 .. n - 1) \union {End, Consumed}]
  BY DEF Links
<1>3. /\ before \in (0 .. n - 1) \union {End, Consumed}
      /\ before >= 0 => nxt[before] = left
      /\ \A p \in 0 .. n - 1 : nxt[p] = left => p = before
  BY <1>0 DEF BackLinked
<1>4. /\ tok2[left] = new
      /\ \A p \in (0 .. n - 1) \ {left} : tok2[p] = tok[p]
  BY DEF MergedTokens
<1> HIDE DEF right, before, after, tok2, nxt2
<1>5. before \in (0 .. left - 1) \union {End, Consumed}
  BY <1>2, <1>3 DEF Links
<1>6. ASSUME NEW q, NEW p \in (0 .. n - 1) \ {before, left, right}
      PROVE  HasPair(tok2, nxt2, q, p) <=> HasPair(tok, nxt, q, p)
  <2>1. nxt2[p] = nxt[p] /\ tok2[p] = tok[p]
    BY <1>1, <1>4
  <2>2. nxt[p] >= 0 => tok2[nxt[p]] = tok[nxt[p]]
    <3>1. nxt[p] # left /\ (nxt[p] >= 0 => nxt[p] \in 0 .. n - 1)
      BY <1>2, <1>3
    <3> QED BY <1>4, <3>1
  <2> QED BY <2>1, <2>2 DEF HasPair
<1>7. ASSUME NEW q
      PROVE  /\ HasPair(tok, nxt, q, left) <=> q = pair
             /\ HasPair(tok, nxt, q, right) <=> (after >= 0 /\ q = <<tok[right], tok[after]>>)
             /\ ~HasPair(tok2, nxt2, q, right)
  BY <1>0, <1>1, <1>2 DEF HasPair
<1>8. ASSUME NEW q
      PROVE  HasPair(tok2, nxt2, q, left) <=> (after >= 0 /\ q = <<new, tok[after]>>)
  <2>1. after >= 0 => tok2[after] = tok[after]
    BY <1>1, <1>2, <1>4
  <2> QED BY <1>1, <1>4, <2>1 DEF HasPair
<1>9. ASSUME NEW q, before >= 0
      PROVE  /\ HasPair(tok, nxt, q, before) <=> q = <<tok[before], tok[left]>>
             /\ HasPair(tok2, nxt2, q, before) <=> q = <<tok[before], new>>
  <2>1. before \in (0 .. n - 1) \ {left, right} /\ nxt[before] = left /\ left >= 0
    BY <1>1, <1>2, <1>3, <1>5, <1>9
  <2>2. nxt2[before] = left /\ tok2[before] = tok[before]
    BY <1>1, <1>4, <2>1
  <2> QED BY <1>4, <2>1, <2>2 DEF HasPair
<1> QED BY <1>0, <1>1, <1>5, <1>6, <1>7, <1>8, <1>9
        DEF PairsAround, right, before, after, tok2, nxt2

\* One element, if there is a neighbour at p.
Perhaps(p, x) == IF p >= 0 THEN <<x>> ELSE <<>>
Here(p, y, x) == IF p >= 0 /\ y = x THEN 1 ELSE 0
Within(x, A) == IF x \in A THEN 1 ELSE 0

LEMMA PerhapsFacts ==
  ASSUME NEW S, NEW p \in Int, NEW x \in S
  PROVE  /\ Perhaps(p, x) \in Seq(S)
         /\ Len(Perhaps(p, x)) = IF p >= 0 THEN 1 ELSE 0
         /\ p >= 0 => Perhaps(p, x)[1] = x
<1>1. CASE p >= 0
  BY <1>1 DEF Perhaps
<1>2. CASE ~(p >= 0)
  BY <1>2 DEF Perhaps
<1> QED BY <1>1, <1>2

LEMMA TimesPerhaps ==
  ASSUME NEW S, NEW s \in Seq(S), NEW y \in S, NEW x, NEW p \in Int
  PROVE  /\ Times(x, s \o Perhaps(p, y)) = Times(x, s) + Here(p, y, x)
         /\ s \o Perhaps(p, y) \in Seq(S)
<1>1. CASE p >= 0
  <2>1. Perhaps(p, y) = <<y>> /\ s \o <<y>> \in Seq(S)
    <3>1. <<y>> \in Seq(S)
      OBVIOUS
    <3> QED BY <1>1, <3>1, ConcatProperties DEF Perhaps
  <2>2. Times(x, s \o <<y>>) = Times(x, s) + IF y = x THEN 1 ELSE 0
    BY TimesAppend
  <2> QED BY <1>1, <2>1, <2>2 DEF Here
<1>2. CASE ~(p >= 0)
  <2>1. s \o Perhaps(p, y) = s
    BY <1>2, ConcatEmptySeq DEF Perhaps
  <2>2. Times(x, s) \in Nat
    BY TimesAppend
  <2> QED BY <1>2, <2>1, <2>2 DEF Here
<1> QED BY <1>1, <1>2

\* How often a pair is among those a merge ends or makes.
LEMMA TimesOfTwo ==
  ASSUME NEW S, NEW s \in Seq(S), NEW y \in S, NEW z \in S, NEW p \in Int, NEW r \in Int, NEW x
  PROVE  Times(x, s \o (Perhaps(p, y) \o Perhaps(r, z))) =
           Times(x, s) + Here(p, y, x) + Here(r, z, x)
<1> DEFINE t == s \o Perhaps(p, y)
<1>1. Times(x, t) = Times(x, s) + Here(p, y, x) /\ t \in Seq(S)
  BY TimesPerhaps
<1>2. Times(x, t \o Perhaps(r, z)) = Times(x, t) + Here(r, z, x)
  <2> HIDE DEF t
  <2> QED BY <1>1, TimesPerhaps
<1>3. t \o Perhaps(r, z) = s \o (Perhaps(p, y) \o Perhaps(r, z))
  BY PerhapsFacts, ConcatAssociative
<1> QED BY <1>1, <1>2, <1>3

Firsts(came) == [i \in DOMAIN came |-> came[i][1]]

\* The pairs that come are those of the entries that come.
LEMMA FirstsOfTwo ==
  ASSUME NEW v, NEW w, NEW p \in Int, NEW r \in Int,
         NEW came, came = Perhaps(p, v) \o Perhaps(r, w)
  PROVE  Firsts(came) = Perhaps(p, v[1]) \o Perhaps(r, w[1])
<1> DEFINE y == v[1]
           z == w[1]
           S == {y, z}
           T == {v, w}
           A == Perhaps(p, v)
           B == Perhaps(r, w)
           C == Perhaps(p, y)
           D == Perhaps(r, z)
           g == [i \in DOMAIN came |-> came[i][1]]
<1>1. /\ A \in Seq(T) /\ B \in Seq(T) /\ C \in Seq(S) /\ D \in Seq(S)
      /\ Len(A) = Len(C) /\ Len(B) = Len(D) /\ Len(A) \in {0, 1} /\ Len(B) \in {0, 1}
      /\ \A i \in 1 .. Len(A) : A[i][1] = C[i]
      /\ \A i \in 1 .. Len(B) : B[i][1] = D[i]
  <2>1. v \in T /\ w \in T /\ y \in S /\ z \in S
    OBVIOUS
  <2>2. /\ A \in Seq(T) /\ Len(A) = (IF p >= 0 THEN 1 ELSE 0) /\ (p >= 0 => A[1] = v)
        /\ B \in Seq(T) /\ Len(B) = (IF r >= 0 THEN 1 ELSE 0) /\ (r >= 0 => B[1] = w)
    <3> HIDE DEF T
    <3> QED BY <2>1, PerhapsFacts
  <2>3. /\ C \in Seq(S) /\ Len(C) = (IF p >= 0 THEN 1 ELSE 0) /\ (p >= 0 => C[1] = y)
        /\ D \in Seq(S) /\ Len(D) = (IF r >= 0 THEN 1 ELSE 0) /\ (r >= 0 => D[1] = z)
    <3> HIDE DEF S, y, z
    <3> QED BY <2>1, PerhapsFacts
  <2> HIDE DEF A, B, C, D
  <2> QED BY <2>2, <2>3
<1> HIDE DEF A, B, C, D
<1>2. /\ came \in Seq(T) /\ Len(came) = Len(A) + Len(B)
      /\ \A i \in 1 .. Len(A) + Len(B) : came[i] = IF i <= Len(A) THEN A[i] ELSE B[i - Len(A)]
  <2>1. came = A \o B
    BY DEF A, B
  <2> HIDE DEF T
  <2>2. /\ A \o B \in Seq(T) /\ Len(A \o B) = Len(A) + Len(B)
        /\ \A i \in 1 .. Len(A) + Len(B) : (A \o B)[i] = IF i <= Len(A) THEN A[i] ELSE B[i - Len(A)]
    <3>1. A \in Seq(T) /\ B \in Seq(T)
      BY <1>1
    <3> QED BY ONLY <3>1, ConcatProperties
  <2> QED BY <2>1, <2>2
<1>3. /\ C \o D \in Seq(S) /\ Len(C \o D) = Len(C) + Len(D)
      /\ \A i \in 1 .. Len(C) + Len(D) : (C \o D)[i] = IF i <= Len(C) THEN C[i] ELSE D[i - Len(C)]
  BY <1>1, ConcatProperties
<1>4. DOMAIN came = 1 .. Len(A) + Len(B)
  <2> HIDE DEF T
  <2> QED BY <1>2, LenProperties
<1>5. ASSUME NEW i \in 1 .. Len(A) + Len(B) PROVE came[i][1] = (C \o D)[i]
  <2>1. CASE i <= Len(A)
    <3>1. i \in 1 .. Len(A)
      BY <1>1, <2>1
    <3> QED BY <1>1, <1>2, <1>3, <2>1, <3>1
  <2>2. CASE ~(i <= Len(A))
    <3> DEFINE j == i - Len(A)
    <3>1. j \in 1 .. Len(B)
      BY <1>1, <2>2
    <3>2. came[i] = B[j] /\ (C \o D)[i] = D[j]
      BY <1>1, <1>2, <1>3, <2>2
    <3> HIDE DEF j
    <3> QED BY <1>1, <3>1, <3>2
  <2> QED BY <2>1, <2>2
<1>6. C \o D = [i \in 1 .. Len(A) + Len(B) |-> (C \o D)[i]]
  <2> DEFINE t == C \o D
  <2>1. t \in Seq(S) /\ Len(t) = Len(A) + Len(B)
    BY <1>1, <1>3
  <2> HIDE DEF t
  <2>2. t = [i \in 1 .. Len(A) + Len(B) |-> t[i]]
    BY <2>1
  <2> QED BY <2>2 DEF t
<1>7. g = [i \in 1 .. Len(A) + Len(B) |-> (C \o D)[i]]
  BY <1>4, <1>5
<1> QED BY <1>6, <1>7 DEF C, D, Firsts

\* Taking three positions out of a set.
LEMMA OneOut ==
  ASSUME NEW A, IsFiniteSet(A), NEW x
  PROVE  /\ IsFiniteSet(A \ {x}) /\ Cardinality(A) \in Nat
         /\ Cardinality(A) = Cardinality(A \ {x}) + Within(x, A)
<1>1. Cardinality(A) \in Nat
  BY FS_CardinalityType
<1>2. /\ IsFiniteSet(A \ {x})
      /\ Cardinality(A \ {x}) = IF x \in A THEN Cardinality(A) - 1 ELSE Cardinality(A)
  BY FS_RemoveElement
<1> QED BY <1>1, <1>2 DEF Within

LEMMA ThreeOut ==
  ASSUME NEW A, IsFiniteSet(A), NEW x, NEW y, NEW z, x # y, x # z, y # z
  PROVE  /\ Cardinality(A) = Cardinality(A \ {x, y, z}) + Within(x, A) + Within(y, A) + Within(z, A)
         /\ Cardinality(A) \in Nat /\ Cardinality(A \ {x, y, z}) \in Nat
<1> DEFINE B == A \ {x}
           C == B \ {y}
           D == C \ {z}
<1>1. /\ IsFiniteSet(B) /\ Cardinality(A) \in Nat
      /\ Cardinality(A) = Cardinality(B) + Within(x, A)
  BY OneOut
<1> HIDE DEF B
<1>2. /\ IsFiniteSet(C) /\ Cardinality(B) \in Nat
      /\ Cardinality(B) = Cardinality(C) + Within(y, B)
  BY <1>1, OneOut
<1> HIDE DEF C
<1>3. /\ IsFiniteSet(D) /\ Cardinality(C) \in Nat
      /\ Cardinality(C) = Cardinality(D) + Within(z, C)
  BY <1>2, OneOut
<1>4. Cardinality(D) \in Nat
  BY <1>3, FS_CardinalityType
<1>5. D = A \ {x, y, z} /\ Within(y, B) = Within(y, A) /\ Within(z, C) = Within(z, A)
  BY DEF B, C, Within
<1> HIDE DEF D
<1>6. Within(x, A) \in Nat /\ Within(y, A) \in Nat /\ Within(z, A) \in Nat
  BY DEF Within
<1> QED BY <1>1, <1>2, <1>3, <1>4, <1>5, <1>6


\* The positions at which a pair is read.
Spots(n, tok, nxt, q) == {p \in 0 .. n - 1 : HasPair(tok, nxt, q, p)}

\* What a merge does to the number of occurrences of any pair.
Recounted(n, tok, nxt, prv, left, pair, new) ==
  LET right == nxt[left]
      before == prv[left]
      after == nxt[right]
  IN \A q : Cardinality(Spots(n, MergedTokens(tok, left, new), MergedLinks(nxt, left), q)) =
       Cardinality(Spots(n, tok, nxt, q))
         - (Here(0, pair, q) + Here(before, <<tok[before], tok[left]>>, q)
              + Here(after, <<tok[right], tok[after]>>, q))
         + (Here(before, <<tok[before], new>>, q) + Here(after, <<new, tok[after]>>, q))

LEMMA CountMerged ==
  ASSUME NEW n, NEW tok, NEW nxt, NEW prv, NEW left, NEW pair, NEW new,
         MergeAt(n, tok, nxt, prv, left, pair, new)
  PROVE  Recounted(n, tok, nxt, prv, left, pair, new)
<1> DEFINE right == nxt[left]
           before == prv[left]
           after == nxt[right]
           tok2 == MergedTokens(tok, left, new)
           nxt2 == MergedLinks(nxt, left)
           A(q) == Spots(n, tok, nxt, q)
           A2(q) == Spots(n, tok2, nxt2, q)
<1>1. /\ right \in left + 1 .. n - 1
      /\ before \in (0 .. left - 1) \union {End, Consumed}
      /\ after \in (right + 1 .. n - 1) \union {End}
      /\ \A q : /\ \A p \in (0 .. n - 1) \ {before, left, right} :
                     HasPair(tok2, nxt2, q, p) <=> HasPair(tok, nxt, q, p)
                /\ HasPair(tok, nxt, q, left) <=> q = pair
                /\ HasPair(tok, nxt, q, right) <=> (after >= 0 /\ q = <<tok[right], tok[after]>>)
                /\ HasPair(tok2, nxt2, q, left) <=> (after >= 0 /\ q = <<new, tok[after]>>)
                /\ ~HasPair(tok2, nxt2, q, right)
                /\ before >= 0 =>
                     /\ HasPair(tok, nxt, q, before) <=> q = <<tok[before], tok[left]>>
                     /\ HasPair(tok2, nxt2, q, before) <=> q = <<tok[before], new>>
  BY AroundMerge DEF PairsAround
<1>2. n \in Nat /\ left \in 0 .. n - 1
  BY DEF MergeAt, Links
<1> HIDE DEF right, before, after, tok2, nxt2
<1>3. before # left /\ before # right /\ left # right /\ right \in 0 .. n - 1
  BY <1>1, <1>2 DEF End, Consumed
<1> SUFFICES ASSUME NEW q
             PROVE  Cardinality(A2(q)) =
                      Cardinality(A(q))
                        - (Here(0, pair, q) + Here(before, <<tok[before], tok[left]>>, q)
                             + Here(after, <<tok[right], tok[after]>>, q))
                        + (Here(before, <<tok[before], new>>, q) + Here(after, <<new, tok[after]>>, q))
  BY DEF Recounted, right, before, after, tok2, nxt2
<1>4. A(q) \ {before, left, right} = A2(q) \ {before, left, right}
  BY <1>1 DEF Spots
<1>5. IsFiniteSet(A(q)) /\ IsFiniteSet(A2(q))
  <2>1. 0 \in Int /\ n - 1 \in Int /\ A(q) \in SUBSET (0 .. n - 1) /\ A2(q) \in SUBSET (0 .. n - 1)
    BY <1>2 DEF Spots
  <2> DEFINE a == 0
             b == n - 1
  <2>2. A(q) \in SUBSET (a .. b) /\ A2(q) \in SUBSET (a .. b) /\ a \in Int /\ b \in Int
    BY <2>1
  <2> HIDE DEF A, A2, a, b
  <2> QED BY <2>2, FS_Interval, FS_Subset
<1>6. /\ Within(left, A(q)) = Here(0, pair, q)
      /\ Within(right, A(q)) = Here(after, <<tok[right], tok[after]>>, q)
      /\ Within(left, A2(q)) = Here(after, <<new, tok[after]>>, q)
      /\ Within(right, A2(q)) = 0
  BY <1>1, <1>2, <1>3 DEF Within, Here, Spots
<1>7. /\ Within(before, A(q)) = Here(before, <<tok[before], tok[left]>>, q)
      /\ Within(before, A2(q)) = Here(before, <<tok[before], new>>, q)
  <2>1. CASE before >= 0
    <3>1. before \in 0 .. n - 1
      BY <1>1, <1>2, <2>1 DEF End, Consumed
    <3> QED BY <1>1, <2>1, <3>1 DEF Within, Here, Spots
  <2>2. CASE ~(before >= 0)
    <3>1. before \notin 0 .. n - 1
      BY <2>2
    <3> QED BY <2>2, <3>1 DEF Within, Here, Spots
  <2> QED BY <2>1, <2>2
<1> HIDE DEF A, A2
<1>8. /\ Cardinality(A(q)) = Cardinality(A(q) \ {before, left, right})
                               + Within(before, A(q)) + Within(left, A(q)) + Within(right, A(q))
      /\ Cardinality(A(q) \ {before, left, right}) \in Nat
  <2> DEFINE B == A(q)
  <2>1. IsFiniteSet(B)
    BY <1>5
  <2> HIDE DEF B
  <2>2. /\ Cardinality(B) = Cardinality(B \ {before, left, right})
                             + Within(before, B) + Within(left, B) + Within(right, B)
        /\ Cardinality(B \ {before, left, right}) \in Nat
    BY ONLY <1>3, <2>1, ThreeOut
  <2> QED BY <2>2 DEF B
<1>9. Cardinality(A2(q)) = Cardinality(A2(q) \ {before, left, right})
                             + Within(before, A2(q)) + Within(left, A2(q)) + Within(right, A2(q))
  BY <1>3, <1>5, ThreeOut
<1>10. \A x, S : Within(x, S) \in {0, 1}
  BY DEF Within
<1>11. /\ Within(before, A(q)) \in {0, 1} /\ Within(left, A(q)) \in {0, 1} /\ Within(right, A(q)) \in {0, 1}
       /\ Within(before, A2(q)) \in {0, 1} /\ Within(left, A2(q)) \in {0, 1}
  BY <1>10
<1> QED BY <1>4, <1>6, <1>7, <1>8, <1>9, <1>11


-----------------------------------------------------------------------------
(* The articles one after the other. *)

EndOf(texts, j) == Len(FlattenSeq(SubSeq(texts, 1, j)))

LaidOut(texts) ==
  /\ EndOf(texts, 0) = 0
  /\ EndOf(texts, Len(texts)) = Len(FlattenSeq(texts))
  /\ \A j \in 0 .. Len(texts) : EndOf(texts, j) \in Nat
  /\ \A i, j \in 0 .. Len(texts) : i < j => EndOf(texts, i) < EndOf(texts, j)
  /\ \A i \in 1 .. Len(texts) :
       SubSeq(FlattenSeq(texts), EndOf(texts, i - 1) + 1, EndOf(texts, i)) = texts[i]

LEMMA ArticlesInPlace ==
  ASSUME NEW S, NEW texts \in Seq(Seq(S) \ {<<>>})
  PROVE  LaidOut(texts)
<1> DEFINE N == Len(texts)
           F(j) == FlattenSeq(SubSeq(texts, 1, j))
           L(j) == EndOf(texts, j)
<1>1. N \in Nat /\ \A j \in 1 .. N : texts[j] \in Seq(S) /\ Len(texts[j]) \in Nat \ {0}
  <2>1. N \in Nat
    BY LenProperties
  <2>2. ASSUME NEW j \in 1 .. N PROVE texts[j] \in Seq(S) /\ Len(texts[j]) \in Nat \ {0}
    <3>1. texts[j] \in Seq(S) \ {<<>>}
      BY ElementOfSeq
    <3> HIDE DEF N
    <3> QED BY <3>1, EmptySeq, LenProperties
  <2> QED BY <2>1, <2>2
<1>2. texts \in Seq(Seq(S))
  <2>1. Seq(S) \ {<<>>} \subseteq Seq(S)
    OBVIOUS
  <2> HIDE DEF N
  <2> QED BY <2>1, SeqMonotonic
<1>3. \A j \in 0 .. N : SubSeq(texts, 1, j) \in Seq(Seq(S))
  BY <1>1, <1>2, SubSeqProperties
<1>4. SubSeq(texts, 1, 0) = <<>> /\ SubSeq(texts, 1, N) = texts
  BY <1>2, SubSeqEmpty, SubSeqFull
<1>5. \A j \in 0 .. N : F(j) \in Seq(S) /\ L(j) = Len(F(j)) /\ L(j) \in Nat
  <2>1. ASSUME NEW j \in 0 .. N PROVE F(j) \in Seq(S)
    <3> DEFINE s == SubSeq(texts, 1, j)
    <3>1. s \in Seq(Seq(S))
      BY <1>3
    <3> HIDE DEF s
    <3>2. FlattenSeq(s) \in Seq(S)
      BY <3>1, FlattenType
    <3> QED BY <3>2 DEF s
  <2>2. \A j : L(j) = Len(F(j))
    BY DEF EndOf
  <2> HIDE DEF F, L
  <2> QED BY <2>1, <2>2, LenProperties
<1>6. F(0) = <<>> /\ F(N) = FlattenSeq(texts) /\ L(0) = 0
  <2>1. FlattenSeq(<<>>) = <<>>
    BY <1>2, FlattenType
  <2>2. F(0) = <<>> /\ F(N) = FlattenSeq(texts)
    BY <1>4, <2>1
  <2>3. Len(<<>>) = 0
    OBVIOUS
  <2>4. 0 \in 0 .. N
    BY <1>1
  <2> HIDE DEF F, L, N
  <2> QED BY <1>5, <2>2, <2>3, <2>4
<1>7. ASSUME NEW j \in 1 .. N
      PROVE  F(j) = F(j - 1) \o texts[j] /\ L(j) = L(j - 1) + Len(texts[j])
  <2> DEFINE k == j - 1
             s == SubSeq(texts, 1, k)
  <2>0. k \in 0 .. N /\ j \in 1 .. N
    BY <1>1
  <2>1. SubSeq(texts, 1, j) = Append(s, texts[j])
    <3> DEFINE one == 1
    <3>1. /\ one \in Int /\ j \in one .. N
          /\ j - 1 = k
      OBVIOUS
    <3> HIDE DEF one, k
    <3>2. SubSeq(texts, one, j) = Append(SubSeq(texts, one, j - 1), texts[j])
      BY <1>1, <1>2, <3>1, SubSeqRecursiveSecond DEF one
    <3> QED BY <3>1, <3>2 DEF one
  <2>2. s \in Seq(Seq(S))
    BY <1>3, <2>0
  <2>3. FlattenSeq(Append(s, texts[j])) = FlattenSeq(s) \o texts[j]
    <3> HIDE DEF s, k
    <3> QED BY <1>1, <2>2, FlattenAppend
  <2>4. F(j) = F(k) \o texts[j]
    BY <2>1, <2>3
  <2>5. F(k) \in Seq(S) /\ L(k) = Len(F(k)) /\ L(j) = Len(F(j))
    <3> HIDE DEF F, L, k
    <3> QED BY <1>5, <2>0
  <2>6. Len(F(k) \o texts[j]) = Len(F(k)) + Len(texts[j])
    <3> HIDE DEF F, L, k
    <3> QED BY <1>1, <2>5, ConcatProperties
  <2>7. F(j) = F(k) \o texts[j] /\ L(j) = L(k) + Len(texts[j])
    <3> HIDE DEF F, L, k
    <3> QED BY <2>4, <2>5, <2>6
  <2> QED BY <2>7 DEF k
<1> HIDE DEF F, L, N
<1>8. ASSUME NEW i \in 0 .. N
      PROVE  \A j \in i + 1 .. N : L(i) < L(j)
  <2> DEFINE T == {j \in 0 .. N : j > i => L(i) < L(j)}
  <2>1. 0 \in T
    BY <1>1
  <2>2. ASSUME NEW j \in 1 .. N, j - 1 \in T PROVE j \in T
    <3> SUFFICES ASSUME j > i PROVE L(i) < L(j)
      BY <1>1
    <3>1. L(j) = L(j - 1) + Len(texts[j]) /\ Len(texts[j]) \in Nat \ {0}
      BY <1>1, <1>7
    <3>2. L(i) \in Nat /\ L(j - 1) \in Nat
      <4>1. j - 1 \in 0 .. N
        BY <1>1
      <4> QED BY <1>5, <4>1
    <3>3. CASE j - 1 = i
      BY <3>1, <3>2, <3>3
    <3>4. CASE j - 1 # i
      <4>1. L(i) < L(j - 1)
        BY <2>2, <3>4
      <4> QED BY <3>1, <3>2, <4>1
    <3> QED BY <3>3, <3>4
  <2>3. 0 .. N \subseteq T
    <3> HIDE DEF T
    <3> QED BY <1>1, <2>1, <2>2, UpTo
  <2>4. ASSUME NEW j \in i + 1 .. N PROVE L(i) < L(j)
    <3>1. j \in 0 .. N /\ j > i
      BY <1>1
    <3> QED BY <2>3, <3>1
  <2> QED BY <2>4
<1>9. ASSUME NEW i \in 1 .. N
      PROVE  SubSeq(F(N), L(i - 1) + 1, L(i)) = texts[i]
  <2> DEFINE T == {j \in 0 .. N : j >= i => SubSeq(F(j), L(i - 1) + 1, L(i)) = texts[i]}
             a == L(i - 1)
             b == L(i)
             x == texts[i]
  <2>0. /\ i - 1 \in 0 .. N /\ i \in 0 .. N /\ N \in 0 .. N /\ N >= i
        /\ a \in Nat /\ b \in Nat /\ x \in Seq(S) /\ Len(x) \in Nat \ {0}
        /\ b = a + Len(x)
        /\ F(i) = F(i - 1) \o x /\ F(i - 1) \in Seq(S) /\ Len(F(i - 1)) = a
    <3>1. i - 1 \in 0 .. N /\ i \in 0 .. N /\ N \in 0 .. N /\ N >= i
      BY <1>1
    <3> QED BY <1>1, <1>5, <1>7, <3>1
  <2>1. 0 \in T
    BY <1>1
  <2>2. ASSUME NEW j \in 1 .. N, j - 1 \in T PROVE j \in T
    <3> SUFFICES ASSUME j >= i PROVE SubSeq(F(j), a + 1, b) = x
      BY <1>1
    <3>1. CASE j = i
      <4> DEFINE s == F(i - 1)
                 m == a + 1
      <4>1. /\ s \in Seq(S) /\ m \in Len(s) + 1 .. Len(s) + Len(x) /\ b \in Len(s) + 1 .. Len(s) + Len(x)
            /\ m - Len(s) = 1 /\ b - Len(s) = Len(x)
        <5>1. s \in Seq(S) /\ Len(s) = a /\ a \in Nat /\ b = a + Len(x) /\ Len(x) \in Nat \ {0}
          BY <2>0
        <5> HIDE DEF s, a, b, x
        <5> QED BY <5>1
      <4>2. F(j) = s \o x
        BY <2>0, <3>1
      <4> HIDE DEF s, m, a, b, x
      <4>3. SubSeq(s \o x, m, b) = SubSeq(x, m - Len(s), b - Len(s))
        BY <2>0, <4>1, SubSeqOfConcat2
      <4>4. SubSeq(x, 1, Len(x)) = x
        BY <2>0, SubSeqFull
      <4> QED BY <4>1, <4>2, <4>3, <4>4 DEF m
    <3>2. CASE j # i
      <4> DEFINE s == F(j - 1)
                 y == texts[j]
                 m == a + 1
      <4>1. SubSeq(s, m, b) = x
        BY <2>2, <3>2
      <4>2. s \in Seq(S) /\ y \in Seq(S) /\ F(j) = s \o y /\ Len(s) = L(j - 1) /\ Len(s) \in Nat
        <5>1. j - 1 \in 0 .. N
          BY <1>1
        <5> QED BY <1>1, <1>5, <1>7, <5>1
      <4>3. b <= Len(s)
        <5>1. j - 1 = i \/ j - 1 \in i + 1 .. N
          BY <1>1, <3>2
        <5>2. j - 1 \in i + 1 .. N => L(i) < L(j - 1)
          BY <1>8, <2>0
        <5> QED BY <2>0, <4>2, <5>1, <5>2
      <4>4. m \in 1 .. Len(s) /\ b \in 1 .. Len(s)
        BY <2>0, <4>2, <4>3
      <4> HIDE DEF s, y, m, a, b, x
      <4>5. SubSeq(s \o y, m, b) = SubSeq(s, m, b)
        BY <4>2, <4>4, SubSeqOfConcat1
      <4> QED BY <4>1, <4>2, <4>5 DEF m
    <3> QED BY <3>1, <3>2
  <2>3. 0 .. N \subseteq T
    <3> HIDE DEF T
    <3> QED BY <1>1, <2>1, <2>2, UpTo
  <2> QED BY <2>0, <2>3
<1>10. L(N) = Len(F(N))
  <2>1. N \in 0 .. N
    BY <1>1
  <2> QED BY <1>5, <2>1
<1>11. \A i, j \in 0 .. N : i < j => L(i) < L(j)
  <2> SUFFICES ASSUME NEW i \in 0 .. N, NEW j \in 0 .. N, i < j PROVE L(i) < L(j)
    OBVIOUS
  <2>1. j \in i + 1 .. N
    BY <1>1
  <2> QED BY <1>8, <2>1
<1>12. \A j \in 0 .. N : L(j) \in Nat
  BY <1>5
<1> QED
  BY <1>6, <1>9, <1>10, <1>11, <1>12 DEF LaidOut, L, N


\* What two neighbours, each there or not, make of a sequence.
IsOfTwo(s, p, x, r, y) ==
  /\ DOMAIN s \subseteq 1 .. 2
  /\ \A k \in DOMAIN s : (p >= 0 /\ s[k] = x) \/ (r >= 0 /\ s[k] = y)
  /\ p >= 0 => 1 \in DOMAIN s /\ s[1] = x
  /\ r >= 0 => \E k \in DOMAIN s : s[k] = y
  /\ 1 \in DOMAIN s /\ 2 \in DOMAIN s => s[1] = x /\ s[2] = y

LEMMA OfTwo ==
  ASSUME NEW p \in Int, NEW r \in Int, NEW x, NEW y, NEW s, s = Perhaps(p, x) \o Perhaps(r, y)
  PROVE  IsOfTwo(s, p, x, r, y)
<1> DEFINE A == Perhaps(p, x)
           B == Perhaps(r, y)
<1>1. /\ A \in Seq({x, y}) /\ Len(A) = (IF p >= 0 THEN 1 ELSE 0) /\ (p >= 0 => A[1] = x)
      /\ B \in Seq({x, y}) /\ Len(B) = (IF r >= 0 THEN 1 ELSE 0) /\ (r >= 0 => B[1] = y)
  <2>1. x \in {x, y} /\ y \in {x, y}
    OBVIOUS
  <2> QED BY <2>1, PerhapsFacts
<1> HIDE DEF A, B
<1>2. /\ A \o B \in Seq({x, y}) /\ Len(A \o B) = Len(A) + Len(B)
      /\ \A i \in 1 .. Len(A) + Len(B) : (A \o B)[i] = IF i <= Len(A) THEN A[i] ELSE B[i - Len(A)]
  <2>1. A \in Seq({x, y}) /\ B \in Seq({x, y})
    BY <1>1
  <2> QED BY ONLY <2>1, ConcatProperties
<1>3. s = A \o B
  BY DEF A, B
<1> DEFINE m == Len(A)
           l == Len(B)
<1>4. /\ m = (IF p >= 0 THEN 1 ELSE 0) /\ l = (IF r >= 0 THEN 1 ELSE 0)
      /\ DOMAIN s = 1 .. m + l
      /\ \A i \in 1 .. m + l : s[i] = IF i <= m THEN A[i] ELSE B[i - m]
  <2>1. s \in Seq({x, y}) /\ Len(s) = m + l
    BY <1>2, <1>3
  <2> QED BY <1>1, <1>2, <1>3, <2>1, LenProperties
<1> HIDE DEF m, l
<1>5. ASSUME NEW k \in DOMAIN s PROVE (p >= 0 /\ k = 1 /\ s[k] = x) \/ (r >= 0 /\ k = m + 1 /\ s[k] = y)
  <2>1. CASE k <= m
    BY <1>1, <1>4, <2>1
  <2>2. CASE ~(k <= m)
    <3>1. r >= 0 /\ k = m + 1 /\ k - m = 1 /\ k \in 1 .. m + l
      BY <1>1, <1>4, <2>2
    <3>2. s[k] = B[k - m]
      BY <1>4, <2>2, <3>1
    <3> QED BY <1>1, <3>1, <3>2
  <2> QED BY <2>1, <2>2
<1>6. ASSUME p >= 0 PROVE 1 \in DOMAIN s /\ s[1] = x
  BY <1>1, <1>4, <1>6
<1>7. ASSUME r >= 0 PROVE m + 1 \in DOMAIN s /\ s[m + 1] = y
  <2>1. m + 1 \in DOMAIN s /\ ~(m + 1 <= m) /\ m + 1 - m = 1
    BY <1>1, <1>4, <1>7
  <2>2. s[m + 1] = B[m + 1 - m]
    BY <1>4, <2>1
  <2> QED BY <1>1, <1>7, <2>1, <2>2
<1>8. DOMAIN s \subseteq 1 .. 2 /\ m \in {0, 1}
  BY <1>4
<1>9. 1 \in DOMAIN s /\ 2 \in DOMAIN s => s[1] = x /\ s[2] = y
  <2> SUFFICES ASSUME 1 \in DOMAIN s, 2 \in DOMAIN s PROVE s[1] = x /\ s[2] = y
    OBVIOUS
  <2>1. m = 1
    BY <1>4, <1>8
  <2>2. p >= 0
    BY <1>4, <2>1
  <2>3. 2 # 1 /\ (2 = m + 1 \/ 2 # m + 1)
    OBVIOUS
  <2>4. s[2] = y
    BY <1>5, <2>3
  <2> QED BY <1>6, <2>2, <2>4
<1> QED BY <1>5, <1>6, <1>7, <1>8, <1>9 DEF IsOfTwo

\* The positions that a merge notes for a pair, of the entries that come with it.
Extra(came, q) ==
  LET here == InOrder({i \in DOMAIN came : came[i][1] = q})
  IN [i \in DOMAIN here |-> came[here[i]][2]]

IsExtra(e, p, y, v, r, z, w, q) ==
  /\ e \in Seq({v, w})
  /\ \A x \in Range(e) : (p >= 0 /\ y = q /\ x = v) \/ (r >= 0 /\ z = q /\ x = w)
  /\ p >= 0 /\ y = q => v \in Range(e)
  /\ r >= 0 /\ z = q => w \in Range(e)
  /\ v < w => Increasing(e)

LEMMA ExtraFacts ==
  ASSUME NEW p \in Int, NEW r \in Int, NEW y, NEW v, NEW z, NEW w, NEW q,
         NEW came, IsOfTwo(came, p, <<y, v>>, r, <<z, w>>)
  PROVE  IsExtra(Extra(came, q), p, y, v, r, z, w, q)
<1> DEFINE I == {i \in DOMAIN came : came[i][1] = q}
           here == InOrder(I)
           e == Extra(came, q)
<1>1. IsOfTwo(came, p, <<y, v>>, r, <<z, w>>)
  OBVIOUS
<1>2. IsInOrder(here, I)
  <2>1. I \in SUBSET (1 .. 2) /\ I \in SUBSET Nat
    BY <1>1 DEF IsOfTwo
  <2> DEFINE one == 1
             two == 2
  <2>2. I \in SUBSET (one .. two) /\ one \in Int /\ two \in Int
    BY <2>1
  <2> HIDE DEF I, one, two
  <2>3. IsFiniteSet(one .. two)
    BY <2>2, FS_Interval
  <2>4. IsFiniteSet(I)
    BY <2>2, <2>3, FS_Subset
  <2> QED BY <2>1, <2>4, Ordered
<1>3. /\ here \in Seq(I) /\ Increasing(here) /\ \A i \in I : i \in Range(here)
  BY <1>2 DEF IsInOrder
<1>4. e = [i \in DOMAIN here |-> came[here[i]][2]]
  BY DEF Extra
<1> HIDE DEF here, e
<1>5. \A i \in DOMAIN here : here[i] \in I /\ e[i] = came[here[i]][2]
  <2> HIDE DEF I
  <2> QED BY <1>3, <1>4, ElementOfSeq, LenProperties
<1>6. ASSUME NEW k \in I
      PROVE  /\ (p >= 0 /\ y = q /\ came[k][2] = v) \/ (r >= 0 /\ z = q /\ came[k][2] = w)
             /\ k \in DOMAIN came
  BY <1>1 DEF IsOfTwo
<1>7. e \in Seq({v, w})
  <2>1. \A i \in DOMAIN here : e[i] \in {v, w}
    <3> HIDE DEF I
    <3> QED BY <1>5, <1>6
  <2>2. DOMAIN here = 1 .. Len(here) /\ Len(here) \in Nat
    <3> HIDE DEF I
    <3> QED BY <1>3, LenProperties
  <2>3. e = [i \in 1 .. Len(here) |-> e[i]]
    BY <1>4, <2>2
  <2> QED BY <2>1, <2>2, <2>3
<1>8. DOMAIN e = DOMAIN here
  BY <1>4
<1>9. ASSUME NEW x \in Range(e) PROVE (p >= 0 /\ y = q /\ x = v) \/ (r >= 0 /\ z = q /\ x = w)
  <2>1. PICK i \in DOMAIN here : x = e[i]
    BY <1>8 DEF Range
  <2> HIDE DEF I
  <2> QED BY <1>5, <1>6, <2>1
<1>10. ASSUME NEW k \in I PROVE came[k][2] \in Range(e)
  <2>1. PICK i \in DOMAIN here : here[i] = k
    BY <1>3 DEF Range
  <2> QED BY <1>5, <1>8, <2>1 DEF Range
<1>11. ASSUME p >= 0, y = q PROVE v \in Range(e)
  <2>1. 1 \in DOMAIN came /\ came[1] = <<y, v>>
    BY <1>1, <1>11 DEF IsOfTwo
  <2>2. 1 \in I /\ came[1][2] = v
    BY <1>11, <2>1
  <2> HIDE DEF I
  <2> QED BY <1>10, <2>2
<1>12. ASSUME r >= 0, z = q PROVE w \in Range(e)
  <2>1. PICK k \in DOMAIN came : came[k] = <<z, w>>
    BY <1>1, <1>12 DEF IsOfTwo
  <2>2. k \in I /\ came[k][2] = w
    BY <1>12, <2>1
  <2> HIDE DEF I
  <2> QED BY <1>10, <2>2
<1>13. ASSUME v < w PROVE Increasing(e)
  <2> SUFFICES ASSUME NEW i \in DOMAIN here, NEW j \in DOMAIN here, i < j PROVE e[i] < e[j]
    BY <1>8 DEF Increasing
  <2>1. here[i] < here[j] /\ here[i] \in I /\ here[j] \in I
    BY <1>3, <1>5 DEF Increasing
  <2>2. here[i] = 1 /\ here[j] = 2 /\ 1 \in DOMAIN came /\ 2 \in DOMAIN came
    <3>1. here[i] \in 1 .. 2 /\ here[j] \in 1 .. 2 /\ here[i] \in DOMAIN came /\ here[j] \in DOMAIN came
      BY <1>1, <2>1 DEF IsOfTwo
    <3>2. here[i] = 1 /\ here[j] = 2
      BY <2>1, <3>1
    <3> QED BY <3>1, <3>2
  <2>3. came[1] = <<y, v>> /\ came[2] = <<z, w>>
    BY <1>1, <2>2 DEF IsOfTwo
  <2>4. e[i] = v /\ e[j] = w
    BY <1>5, <2>2, <2>3
  <2> QED BY <1>13, <2>4
<1> QED BY <1>7, <1>9, <1>11, <1>12, <1>13 DEF IsExtra, e


-----------------------------------------------------------------------------
(* The trainer's list and its counts. *)

Training == {"count", "select", "merge"}
Size == Len(FlattenSeq(articles))
Newest == ByteCount + Len(file)

\* No article's first token is ever merged into what is before it.
StartsKept ==
  \A i \in DOMAIN articles :
    /\ Starts[i] \in 0 .. Size - 1
    /\ next[Starts[i]] # Consumed
    /\ \A q \in 0 .. Size - 1 : next[q] # Starts[i]

\* The token of a merge is in the list only once that merge is under way.
TrainerList ==
  pc \in Training =>
    /\ file \in Seq(Pair) /\ Len(file) < MergeCount
    /\ token \in [0 .. Size - 1 -> 0 .. Newest]
    /\ pc # "merge" => \A p \in 0 .. Size - 1 : token[p] # Newest
    /\ Links(Size, next) /\ Adjacent(Size, next) /\ BackLinked(Size, next, previous)
    /\ StartsKept

\* The counts are what counting again would give, and every pair there is is in
\* the heap with its count, but for those that the merge under way has touched.
Counted ==
  pc \in {"select", "merge"} =>
    /\ counts = [pair \in Pair |-> Cardinality(Occurrences(pair))]
    /\ occurrences \in [Pair -> Seq(0 .. Size - 1)]
    /\ heap \subseteq Nat \X Pair
    /\ \A pair \in Pair :
         counts[pair] > 0 /\ (pc = "merge" => pair \notin changed) => <<counts[pair], pair>> \in heap
    /\ pc = "merge" => /\ selected \in Pair /\ changed \in SUBSET Pair /\ selected \in changed
                       /\ cursor \in Nat \ {0}
                       /\ GreedyChoice

TrainerInv ==
  /\ pc = "start" => file = <<>>
  /\ TrainerList
  /\ Counted

LEMMA OccurrencesAreSpots ==
  ASSUME NEW n, NEW pair, next \in [0 .. n - 1 -> (0 .. n - 1) \union {End, Consumed}]
  PROVE  /\ Occurrences(pair) = Spots(n, token, next, pair)
         /\ \A p : IsPairAt(pair, p) <=> HasPair(token, next, pair, p)
BY DEF Occurrences, Spots, IsPairAt, PairAt, HasPair

\* Where training begins every article is there, on its own.
LEMMA TrainingStarted ==
  ASSUME TrainerInv, StartTraining
  PROVE  TrainerInv'
<1> USE SizesAssumption, TextsAssumption
<1> DEFINE texts == articles'
           bytes == FlattenSeq(texts)
           lasts == LastPositions(texts)
           n == Len(bytes)
           nxt == FreshNext(bytes, lasts)
           tok == FreshToken(bytes)
           prv == FreshPrevious(bytes, lasts)
<1>1. /\ pc = "start" /\ pc' = "count" /\ texts \in Corpora
      /\ token' = tok /\ next' = nxt /\ previous' = prv
      /\ file' = file
  BY DEF StartTraining
<1>2. texts \in Seq(Seq(Byte) \ {<<>>})
  BY <1>1
<1> HIDE DEF texts
<1>3. LaidOut(texts)
  BY <1>2, ArticlesInPlace
<1>4. bytes \in Seq(Byte) /\ n \in Nat /\ Len(texts) \in Nat /\ DOMAIN texts = 1 .. Len(texts)
  <2>1. Seq(Byte) \ {<<>>} \subseteq Seq(Byte)
    OBVIOUS
  <2>2. texts \in Seq(Seq(Byte))
    BY <1>2, <2>1, SeqMonotonic
  <2>3. bytes \in Seq(Byte)
    BY <2>2, FlattenType
  <2> HIDE DEF bytes
  <2> QED BY <2>2, <2>3, LenProperties
<1>5. /\ lasts = {EndOf(texts, i) - 1 : i \in 1 .. Len(texts)}
      /\ EndOf(texts, 0) = 0 /\ EndOf(texts, Len(texts)) = n
      /\ \A j \in 0 .. Len(texts) : EndOf(texts, j) \in Nat
      /\ \A i, j \in 0 .. Len(texts) : i < j => EndOf(texts, i) < EndOf(texts, j)
  <2>1. lasts = {EndOf(texts, i) - 1 : i \in 1 .. Len(texts)}
    BY DEF LastPositions, EndOf
  <2> HIDE DEF lasts
  <2> QED BY <1>3, <2>1 DEF LaidOut
<1> HIDE DEF bytes, lasts
<1>6. n > 0 => n - 1 \in lasts
  <2> SUFFICES ASSUME n > 0 PROVE n - 1 \in lasts
    OBVIOUS
  <2>1. Len(texts) \in 1 .. Len(texts)
    BY <1>4, <1>5
  <2> QED BY <1>5, <2>1
<1>7. /\ Links(n, nxt) /\ tok \in [0 .. n - 1 -> Byte]
      /\ \A p \in 0 .. n - 1 : nxt[p] = IF p \in lasts THEN End ELSE p + 1
  BY <1>4, <1>6, FreshLinks
<1>8. /\ prv \in [0 .. n - 1 -> (0 .. n - 1) \union {End, Consumed}]
      /\ \A p \in 0 .. n - 1 : prv[p] = IF p = 0 \/ p - 1 \in lasts THEN End ELSE p - 1
  <2>1. prv = [p \in 0 .. n - 1 |-> IF p = 0 \/ p - 1 \in lasts THEN End ELSE p - 1]
    BY DEF FreshPrevious, Positions
  <2>2. \A p \in 0 .. n - 1 : p # 0 => p - 1 \in 0 .. n - 1
    BY <1>4
  <2> HIDE DEF prv, n
  <2> QED BY <2>1, <2>2
<1> HIDE DEF nxt, tok, prv, n
<1>9. Adjacent(n, nxt)
  <2> SUFFICES ASSUME NEW p \in 0 .. n - 1, nxt[p] >= 0, NEW r \in p + 1 .. nxt[p] - 1
               PROVE  FALSE
    BY DEF Adjacent
  <2>1. nxt[p] = p + 1
    BY <1>7 DEF End
  <2> QED BY <1>4, <2>1
<1>10. BackLinked(n, nxt, prv)
  <2> SUFFICES ASSUME NEW p \in 0 .. n - 1, NEW q \in 0 .. n - 1
               PROVE  prv[p] = q <=> nxt[q] = p
    BY <1>8 DEF BackLinked
  <2>1. prv[p] = q <=> p # 0 /\ p - 1 \notin lasts /\ p - 1 = q
    BY <1>8 DEF End
  <2>2. nxt[q] = p <=> q \notin lasts /\ q + 1 = p
    BY <1>7 DEF End
  <2> QED BY <2>1, <2>2
<1>11. ASSUME NEW i \in 1 .. Len(texts)
       PROVE  /\ EndOf(texts, i - 1) \in 0 .. n - 1
              /\ nxt[EndOf(texts, i - 1)] # Consumed
              /\ \A q \in 0 .. n - 1 : nxt[q] # EndOf(texts, i - 1)
  <2> DEFINE first == EndOf(texts, i - 1)
  <2>1. first \in Nat /\ first < n
    <3>1. i - 1 \in 0 .. Len(texts) /\ Len(texts) \in 0 .. Len(texts) /\ i - 1 < Len(texts)
      BY <1>4
    <3> QED BY <1>5, <3>1
  <2>2. i # 1 => first - 1 \in lasts
    <3>1. i # 1 => i - 1 \in 1 .. Len(texts)
      BY <1>4
    <3> QED BY <1>5, <3>1
  <2>3. i = 1 => first = 0
    BY <1>5
  <2> HIDE DEF first
  <2>4. first \in 0 .. n - 1
    BY <1>4, <2>1
  <2>5. ASSUME NEW q \in 0 .. n - 1, nxt[q] = first PROVE FALSE
    <3>1. q \notin lasts /\ q + 1 = first
      BY <1>7, <2>1, <2>5 DEF End
    <3> QED BY <2>2, <2>3, <3>1
  <2>6. nxt[first] # Consumed
    BY <1>7, <2>4 DEF End, Consumed
  <2> QED BY <2>4, <2>5, <2>6 DEF first
<1>12. file' = <<>> /\ Newest' = ByteCount /\ Size' = n
  BY <1>1 DEF TrainerInv, Newest, Size, n, bytes, texts
<1>13. StartsKept'
  <2>1. Starts' = [i \in 1 .. Len(texts) |-> EndOf(texts, i - 1)]
    BY DEF Starts, EndOf, texts
  <2>2. ASSUME NEW i \in 1 .. Len(texts)
        PROVE  /\ Starts'[i] \in 0 .. Size' - 1
               /\ next'[Starts'[i]] # Consumed
               /\ \A q \in 0 .. Size' - 1 : next'[q] # Starts'[i]
    BY <1>1, <1>11, <1>12, <2>1
  <2>3. DOMAIN articles' = 1 .. Len(texts)
    BY <1>4 DEF texts
  <2> QED BY <2>2, <2>3 DEF StartsKept
<1>14. /\ token' \in [0 .. n - 1 -> 0 .. ByteCount]
       /\ \A p \in 0 .. n - 1 : token'[p] # ByteCount
  <2>1. Byte \subseteq 0 .. ByteCount /\ ByteCount \notin Byte
    BY DEF Byte
  <2> QED BY <1>1, <1>7, <2>1
<1>15. <<>> \in Seq(Pair) /\ Len(<<>>) < MergeCount
  OBVIOUS
<1>16. TrainerList'
  BY <1>1, <1>7, <1>9, <1>10, <1>12, <1>13, <1>14, <1>15 DEF TrainerList
<1> QED BY <1>1, <1>16 DEF TrainerInv, Counted


LEMMA ListKept ==
  ASSUME TrainerList, pc \in Training, pc' \in {"select", "merge"},
         UNCHANGED <<listVars, articles, file>>
  PROVE  TrainerList' \/ pc = "merge"
<1>1. /\ Size' = Size /\ Newest' = Newest /\ Starts' = Starts
      /\ token' = token /\ previous' = previous /\ next' = next /\ articles' = articles /\ file' = file
  BY DEF Size, Newest, Starts, listVars
<1>2. StartsKept => StartsKept'
  BY <1>1 DEF StartsKept
<1> QED BY <1>1, <1>2 DEF TrainerList, Training

LEMMA ListNumbers ==
  ASSUME ArticlesInv, TrainerList, pc \in Training
  PROVE  /\ Size \in Nat /\ Newest \in Nat /\ 0 .. Newest \subseteq Token /\ Token \subseteq Nat
         /\ Len(file) \in Nat
         /\ next \in [0 .. Size - 1 -> (0 .. Size - 1) \union {End, Consumed}]
<1> USE SizesAssumption
<1>1. Len(file) \in Nat /\ Len(file) < MergeCount
  BY LenProperties DEF TrainerList
<1>2. 0 .. Newest \subseteq Token /\ Token \subseteq Nat /\ Newest \in Nat
  BY <1>1 DEF Token, Newest
<1>3. /\ Size \in Nat
      /\ next \in [0 .. Size - 1 -> (0 .. Size - 1) \union {End, Consumed}]
  BY DEF TrainerList, Links
<1> QED BY <1>1, <1>2, <1>3

LEMMA SpotsFinite ==
  ASSUME NEW n \in Nat, NEW tok, NEW nxt, NEW q
  PROVE  /\ Spots(n, tok, nxt, q) \in SUBSET (0 .. n - 1)
         /\ Spots(n, tok, nxt, q) \in SUBSET Nat
         /\ IsFiniteSet(Spots(n, tok, nxt, q))
         /\ Cardinality(Spots(n, tok, nxt, q)) \in Nat
<1> DEFINE a == 0
           b == n - 1
           A == Spots(n, tok, nxt, q)
<1>1. A \in SUBSET (a .. b) /\ A \in SUBSET Nat /\ a \in Int /\ b \in Int
  BY DEF Spots
<1>2. IsFiniteSet(A)
  <2> HIDE DEF A, a, b
  <2> QED BY <1>1, FS_Interval, FS_Subset
<1> HIDE DEF A
<1> QED BY <1>1, <1>2, FS_CardinalityType DEF A

LEMMA CountsOfOccurrences ==
  ASSUME Size \in Nat, next \in [0 .. Size - 1 -> (0 .. Size - 1) \union {End, Consumed}]
  PROVE  \A pair : Cardinality(Occurrences(pair)) \in Nat
<1>1. ASSUME NEW pair PROVE Cardinality(Occurrences(pair)) \in Nat
  <2> DEFINE A == Spots(Size, token, next, pair)
  <2>1. Cardinality(A) \in Nat
    BY SpotsFinite
  <2>2. Occurrences(pair) = A
    BY OccurrencesAreSpots
  <2> HIDE DEF A
  <2> QED BY <2>1, <2>2
<1> QED BY <1>1

\* Counting the pairs.
LEMMA PairsCounted ==
  ASSUME ArticlesInv, TrainerInv, CountPairs
  PROVE  TrainerInv'
<1>1. /\ pc = "count" /\ pc' = "select"
      /\ counts' = [pair \in Pair |-> Cardinality(Occurrences(pair))]
      /\ occurrences' = [pair \in Pair |-> InOrder(Occurrences(pair))]
      /\ heap' = {<<counts'[pair], pair>> : pair \in {q \in Pair : counts'[q] > 0}}
      /\ UNCHANGED <<listVars, articles, file>>
  BY DEF CountPairs
<1>2. pc \in Training /\ TrainerList
  BY <1>1 DEF Training, TrainerInv
<1>3. TrainerList'
  BY <1>1, <1>2, ListKept
<1>4. /\ Size \in Nat /\ Size' = Size /\ token' = token /\ next' = next
      /\ next \in [0 .. Size - 1 -> (0 .. Size - 1) \union {End, Consumed}]
  BY <1>1, <1>2, ListNumbers DEF Size, listVars
<1>5. ASSUME NEW pair
      PROVE  /\ Occurrences(pair)' = Occurrences(pair)
             /\ InOrder(Occurrences(pair)) \in Seq(0 .. Size - 1)
             /\ Cardinality(Occurrences(pair)) \in Nat
  <2> DEFINE A == Spots(Size, token, next, pair)
  <2>1. A \in SUBSET (0 .. Size - 1) /\ A \in SUBSET Nat /\ IsFiniteSet(A) /\ Cardinality(A) \in Nat
    BY <1>4, SpotsFinite
  <2>2. Occurrences(pair) = A
    BY <1>4, OccurrencesAreSpots
  <2>3. Occurrences(pair)' = Occurrences(pair)
    BY <1>4 DEF Occurrences, IsPairAt, PairAt
  <2> HIDE DEF A
  <2>4. InOrder(A) \in Seq(A)
    BY <2>1, Ordered DEF IsInOrder
  <2>5. InOrder(A) \in Seq(0 .. Size - 1)
    BY <2>1, <2>4, SeqMonotonic
  <2> QED BY <2>1, <2>2, <2>3, <2>5
<1>6. counts' = [pair \in Pair |-> Cardinality(Occurrences(pair)')]
  BY <1>1, <1>5
<1>7. occurrences' \in [Pair -> Seq(0 .. Size - 1)]
  BY <1>1, <1>5
<1>8. heap' \subseteq Nat \X Pair
  <2>1. \A pair \in Pair : counts'[pair] \in Nat
    BY <1>1, <1>5
  <2> QED BY <1>1, <2>1
<1>9. \A pair \in Pair : counts'[pair] > 0 => <<counts'[pair], pair>> \in heap'
  BY <1>1
<1>10. Counted'
  BY <1>1, <1>4, <1>6, <1>7, <1>8, <1>9 DEF Counted
<1> QED BY <1>1, <1>3, <1>10 DEF TrainerInv

LEMMA OccurrencesKept ==
  ASSUME UNCHANGED listVars, NEW pair
  PROVE  Occurrences(pair)' = Occurrences(pair)
BY DEF Occurrences, IsPairAt, PairAt, listVars

LEMMA OutdatedDropped ==
  ASSUME TrainerInv, DropOutdated
  PROVE  TrainerInv'
<1>1. PICK entry \in heap : ~UpToDate(entry) /\ heap' = heap \ {entry}
  BY DEF DropOutdated
<1>2. /\ pc = "select" /\ pc' = "select"
      /\ UNCHANGED <<listVars, articles, file, counts, occurrences>>
  BY DEF DropOutdated, encodingVars, listVars
<1>3. TrainerList'
  BY <1>2, ListKept DEF TrainerInv, Training
<1>4. /\ counts = [pair \in Pair |-> Cardinality(Occurrences(pair))]
      /\ occurrences \in [Pair -> Seq(0 .. Size - 1)]
      /\ heap \subseteq Nat \X Pair
      /\ \A pair \in Pair : counts[pair] > 0 => <<counts[pair], pair>> \in heap
  BY <1>2 DEF TrainerInv, Counted
<1>5. \A pair \in Pair : counts[pair] > 0 => <<counts[pair], pair>> \in heap'
  BY <1>1, <1>4 DEF UpToDate
<1>6. Size' = Size /\ \A pair : Occurrences(pair)' = Occurrences(pair)
  BY <1>2, OccurrencesKept DEF Size
<1>7. counts' = [pair \in Pair |-> Cardinality(Occurrences(pair)')]
  BY <1>2, <1>4, <1>6
<1>8. Counted'
  BY <1>1, <1>2, <1>4, <1>5, <1>6, <1>7 DEF Counted
<1> QED BY <1>2, <1>3, <1>8 DEF TrainerInv

\* What is foremost in the heap and up to date is the pair to merge.
LEMMA PairSelected ==
  ASSUME ArticlesInv, TrainerInv, SelectPair
  PROVE  TrainerInv'
<1>1. PICK entry \in heap :
        /\ Foremost(entry) /\ UpToDate(entry)
        /\ heap' = heap \ {entry} /\ selected' = entry[2] /\ changed' = {entry[2]}
  BY DEF SelectPair
<1>2. /\ pc = "select" /\ pc' = "merge" /\ cursor' = 1
      /\ UNCHANGED <<listVars, articles, file, counts, occurrences>>
  BY DEF SelectPair
<1>3. TrainerList /\ TrainerList' /\ pc \in Training
  BY <1>2, ListKept DEF TrainerInv, Training
<1>4. /\ counts = [pair \in Pair |-> Cardinality(Occurrences(pair))]
      /\ occurrences \in [Pair -> Seq(0 .. Size - 1)]
      /\ heap \subseteq Nat \X Pair
      /\ \A pair \in Pair : counts[pair] > 0 => <<counts[pair], pair>> \in heap
  BY <1>2 DEF TrainerInv, Counted
<1>5. entry \in Nat \X Pair /\ entry[2] \in Pair /\ counts[entry[2]] = entry[1] /\ entry[1] > 0
  BY <1>1, <1>4 DEF UpToDate
<1>6. Size' = Size /\ \A pair : Occurrences(pair)' = Occurrences(pair)
  BY <1>2, OccurrencesKept DEF Size
<1>7. counts' = [pair \in Pair |-> Cardinality(Occurrences(pair)')]
  BY <1>2, <1>4, <1>6
<1>8. \A pair \in Pair : Cardinality(Occurrences(pair)) \in Nat
  <2>1. Size \in Nat /\ next \in [0 .. Size - 1 -> (0 .. Size - 1) \union {End, Consumed}]
    BY <1>3, ListNumbers
  <2> QED BY <2>1, CountsOfOccurrences
<1>9. ASSUME NEW pair \in Pair, pair # entry[2]
      PROVE  Precedes(<<Cardinality(Occurrences(entry[2])), entry[2]>>,
                      <<Cardinality(Occurrences(pair)), pair>>)
  <2>1. Cardinality(Occurrences(pair)) = counts[pair] /\ counts[pair] \in Nat
    BY <1>4, <1>8
  <2>2. Cardinality(Occurrences(entry[2])) = entry[1]
    BY <1>4, <1>5
  <2>3. CASE counts[pair] > 0
    <3>1. <<counts[pair], pair>> \in heap /\ <<counts[pair], pair>> # entry
      BY <1>4, <1>9, <2>3
    <3>2. Precedes(entry, <<counts[pair], pair>>)
      BY <1>1, <3>1 DEF Foremost
    <3> QED BY <2>1, <2>2, <3>2 DEF Precedes
  <2>4. CASE counts[pair] = 0
    BY <1>5, <2>1, <2>2, <2>4 DEF Precedes
  <2> QED BY <2>1, <2>3, <2>4
<1>10. GreedyChoice'
  BY <1>1, <1>6, <1>9 DEF GreedyChoice, Precedes
<1>11. \A pair \in Pair : counts[pair] > 0 /\ pair \notin changed' => <<counts[pair], pair>> \in heap'
  BY <1>1, <1>4
<1>12. Counted'
  BY <1>1, <1>2, <1>4, <1>5, <1>6, <1>7, <1>10, <1>11 DEF Counted
<1> QED BY <1>2, <1>3, <1>12 DEF TrainerInv

\* The pairs that a merge has touched are back in the heap when it ends.
LEMMA MergeFinished ==
  ASSUME ArticlesInv, TrainerInv, FinishMerge
  PROVE  TrainerInv'
<1> USE SizesAssumption
<1>1. /\ pc = "merge" /\ file' = Append(file, selected)
      /\ heap' = heap \union {<<counts[pair], pair>> : pair \in {q \in changed : counts[q] > 0}}
      /\ (Len(file') = MergeCount /\ pc' = "parse") \/ (Len(file') # MergeCount /\ pc' = "select")
      /\ UNCHANGED <<listVars, articles, counts, occurrences>>
  BY DEF FinishMerge
<1>2. TrainerList /\ pc \in Training
  BY <1>1 DEF TrainerInv, Training
<1>3. /\ counts = [pair \in Pair |-> Cardinality(Occurrences(pair))]
      /\ occurrences \in [Pair -> Seq(0 .. Size - 1)]
      /\ heap \subseteq Nat \X Pair
      /\ \A pair \in Pair : counts[pair] > 0 /\ pair \notin changed => <<counts[pair], pair>> \in heap
      /\ selected \in Pair /\ changed \in SUBSET Pair
  BY <1>1 DEF TrainerInv, Counted
<1>4. CASE pc' = "parse"
  BY <1>4 DEF TrainerInv, TrainerList, Counted, Training
<1>5. CASE pc' = "select"
  <2>1. /\ file \in Seq(Pair) /\ Len(file) < MergeCount
        /\ token \in [0 .. Size - 1 -> 0 .. Newest]
        /\ Links(Size, next) /\ Adjacent(Size, next) /\ BackLinked(Size, next, previous)
        /\ StartsKept
    BY <1>2 DEF TrainerList
  <2>2. /\ Size \in Nat /\ Newest \in Nat /\ Len(file) \in Nat
        /\ next \in [0 .. Size - 1 -> (0 .. Size - 1) \union {End, Consumed}]
    BY <1>2, ListNumbers
  <2>3. file' \in Seq(Pair) /\ Len(file') = Len(file) + 1
    BY <1>1, <1>3, <2>1, AppendProperties
  <2>4. Len(file') < MergeCount /\ Newest' = Newest + 1
    <3>1. Len(file') # MergeCount
      BY <1>1, <1>5
    <3>2. Newest' = ByteCount + Len(file') /\ Newest = ByteCount + Len(file)
      BY DEF Newest
    <3>3. ByteCount \in Nat /\ MergeCount \in Nat
      OBVIOUS
    <3> HIDE DEF Newest
    <3> QED BY <2>1, <2>2, <2>3, <3>1, <3>2, <3>3
  <2>5. /\ Size' = Size /\ Starts' = Starts /\ token' = token /\ next' = next
        /\ previous' = previous /\ articles' = articles
        /\ \A pair : Occurrences(pair)' = Occurrences(pair)
    BY <1>1, OccurrencesKept DEF Size, Starts, listVars
  <2>6. StartsKept'
    BY <2>1, <2>5 DEF StartsKept
  <2>7. token \in [0 .. Size - 1 -> 0 .. Newest + 1] /\ \A p \in 0 .. Size - 1 : token[p] # Newest + 1
    BY <2>1, <2>2
  <2>8. TrainerList'
    BY <1>5, <2>1, <2>3, <2>4, <2>5, <2>6, <2>7 DEF TrainerList
  <2>9. \A pair \in Pair : counts[pair] \in Nat
    BY <1>3, <2>2, CountsOfOccurrences
  <2>10. heap' \subseteq Nat \X Pair
    BY <1>1, <1>3, <2>9
  <2>11. \A pair \in Pair : counts[pair] > 0 => <<counts[pair], pair>> \in heap'
    BY <1>1, <1>3
  <2>12. counts' = [pair \in Pair |-> Cardinality(Occurrences(pair)')]
    BY <1>1, <1>3, <2>5
  <2>13. Counted'
    BY <1>1, <1>3, <1>5, <2>5, <2>10, <2>11, <2>12 DEF Counted
  <2> QED BY <1>5, <2>8, <2>13 DEF TrainerInv
<1> QED BY <1>1, <1>4, <1>5

-----------------------------------------------------------------------------
(* One of the noted positions. *)

\* What it does when the pair is there, with all that the invariant says of it.
PairGone(left) ==
  /\ ~HasPair(token, next, selected, left)
  /\ UNCHANGED <<listVars, counts, occurrences, changed>>

PairMerged(left) ==
  LET right == next[left]
      before == previous[left]
      after == next[right]
      gone == Perhaps(before, <<token[before], token[left]>>)
                \o Perhaps(after, <<token[right], token[after]>>)
      came == Perhaps(before, << <<token[before], Newest>>, before>>)
                \o Perhaps(after, << <<Newest, token[after]>>, left>>)
  IN /\ MergeAt(Size, token, next, previous, left, selected, Newest)
     /\ token' = MergedTokens(token, left, Newest)
     /\ next' = MergedLinks(next, left)
     /\ previous' = MergedBacks(next, previous, left)
     /\ counts' = [pair \in Pair |->
          counts[pair] - Times(pair, <<selected>> \o gone)
            + Times(pair, [i \in DOMAIN came |-> came[i][1]])]
     /\ occurrences' = [pair \in Pair |-> occurrences[pair] \o Extra(came, pair)]
     /\ changed' = changed \union Range(gone) \union {entry[1] : entry \in Range(came)}

OccurrenceTaken(left) ==
  /\ pc = "merge" /\ pc' = "merge"
  /\ cursor \in DOMAIN occurrences[selected] /\ left = occurrences[selected][cursor]
  /\ left \in 0 .. Size - 1
  /\ PairGone(left) \/ PairMerged(left)
  /\ cursor' = cursor + 1
  /\ UNCHANGED <<articles, file, heap, selected, trained>>

LEMMA TakeOccurrence ==
  ASSUME ArticlesInv, TrainerInv, MergeOccurrence
  PROVE  OccurrenceTaken(occurrences[selected][cursor])
<1> DEFINE left == occurrences[selected][cursor]
           right == next[left]
           before == previous[left]
           after == next[right]
<1>1. /\ pc = "merge" /\ pc' = "merge" /\ cursor <= Len(occurrences[selected])
      /\ cursor' = cursor + 1
      /\ UNCHANGED <<articles, file, heap, selected, trained>>
  BY DEF MergeOccurrence
<1>2. /\ TrainerList /\ pc \in Training
      /\ occurrences \in [Pair -> Seq(0 .. Size - 1)] /\ selected \in Pair /\ cursor \in Nat \ {0}
  BY <1>1 DEF TrainerInv, Counted, Training
<1>3. /\ Size \in Nat /\ Newest \in Nat /\ 0 .. Newest \subseteq Nat
      /\ next \in [0 .. Size - 1 -> (0 .. Size - 1) \union {End, Consumed}]
      /\ Links(Size, next) /\ BackLinked(Size, next, previous)
      /\ token \in [0 .. Size - 1 -> 0 .. Newest]
  BY <1>2, ListNumbers DEF TrainerList
<1>4. cursor \in DOMAIN occurrences[selected] /\ left \in 0 .. Size - 1
  <2> DEFINE s == occurrences[selected]
             S == 0 .. Size - 1
  <2>1. s \in Seq(S)
    BY <1>2
  <2>2. cursor \in 1 .. Len(s) /\ DOMAIN s = 1 .. Len(s)
    <3> HIDE DEF s, S
    <3>1. cursor <= Len(s)
      BY <1>1 DEF s
    <3> QED BY <1>2, <2>1, <3>1, LenProperties
  <2> HIDE DEF s, S
  <2>3. s[cursor] \in S
    BY <2>1, <2>2, ElementOfSeq
  <2> QED BY <2>2, <2>3 DEF s, S
<1>5. IsPairAt(selected, left) <=> HasPair(token, next, selected, left)
  BY <1>3, OccurrencesAreSpots
<1>6. CASE ~IsPairAt(selected, left)
  BY <1>1, <1>4, <1>5, <1>6 DEF MergeOccurrence, OccurrenceTaken, PairGone
<1>7. CASE IsPairAt(selected, left)
  <2>1. MergeAt(Size, token, next, previous, left, selected, Newest)
    BY <1>3, <1>4, <1>5, <1>7 DEF MergeAt
  <2>2. /\ token' = TokenAfter(left, Newest) /\ next' = NextAfter(left)
        /\ previous' = [PreviousAfter(left) EXCEPT ![right] = Consumed]
        /\ counts' = [pair \in Pair |->
             counts[pair] - Times(pair, <<selected>> \o Gone(left))
               + Times(pair, [i \in DOMAIN Came(left, Newest) |-> Came(left, Newest)[i][1]])]
        /\ occurrences' = [pair \in Pair |-> occurrences[pair] \o Extra(Came(left, Newest), pair)]
        /\ changed' = changed \union Range(Gone(left))
                        \union {entry[1] : entry \in Range(Came(left, Newest))}
    BY <1>7 DEF MergeOccurrence, Newest, Extra
  <2>3. Gone(left) = Perhaps(before, <<token[before], token[left]>>)
                       \o Perhaps(after, <<token[right], token[after]>>)
    BY DEF Gone, GoneBefore, GoneAfter, Perhaps
  <2>4. Came(left, Newest) = Perhaps(before, << <<token[before], Newest>>, before>>)
                               \o Perhaps(after, << <<Newest, token[after]>>, left>>)
    BY DEF Came, Perhaps
  <2>5. /\ token' = MergedTokens(token, left, Newest) /\ next' = MergedLinks(next, left)
        /\ previous' = MergedBacks(next, previous, left)
    BY <2>2 DEF TokenAfter, NextAfter, PreviousAfter, MergedTokens, MergedLinks, MergedBacks
  <2> HIDE DEF left
  <2>6. PairMerged(left)
    BY <2>1, <2>2, <2>3, <2>4, <2>5 DEF PairMerged
  <2> QED BY <1>1, <1>4, <2>6 DEF OccurrenceTaken, left
<1> QED BY <1>6, <1>7

\* The list stays one of articles.
LEMMA ListMerged ==
  ASSUME ArticlesInv, TrainerInv, NEW left, OccurrenceTaken(left), PairMerged(left)
  PROVE  TrainerList'
<1> USE DEF End, Consumed
<1> DEFINE right == next[left]
           after == next[right]
<1>1. /\ pc = "merge" /\ pc' = "merge" /\ left \in 0 .. Size - 1
      /\ UNCHANGED <<articles, file>>
      /\ Size' = Size /\ Newest' = Newest /\ Starts' = Starts
  BY DEF OccurrenceTaken, Size, Newest, Starts
<1>2. /\ file \in Seq(Pair) /\ Len(file) < MergeCount
      /\ token \in [0 .. Size - 1 -> 0 .. Newest]
      /\ Links(Size, next) /\ Adjacent(Size, next) /\ BackLinked(Size, next, previous)
      /\ StartsKept
      /\ Size \in Nat /\ Newest \in Nat
  BY <1>1, ListNumbers DEF TrainerInv, TrainerList, Training
<1>3. /\ token' = MergedTokens(token, left, Newest) /\ next' = MergedLinks(next, left)
      /\ previous' = MergedBacks(next, previous, left)
      /\ next[left] >= 0
  BY DEF PairMerged, MergeAt, HasPair
<1>4. Links(Size, next') /\ Adjacent(Size, next') /\ BackLinked(Size, next', previous')
  BY <1>1, <1>2, <1>3, LinksMerged, AdjacentMerged, BacksMerged
<1>5. token' \in [0 .. Size - 1 -> 0 .. Newest]
  <2>1. token' = [token EXCEPT ![left] = Newest] /\ Newest \in 0 .. Newest
    BY <1>2, <1>3 DEF MergedTokens
  <2> QED BY <1>1, <1>2, <2>1
<1>6. /\ right \in left + 1 .. Size - 1
      /\ next'[left] = after /\ next'[right] = Consumed
      /\ \A p \in (0 .. Size - 1) \ {left, right} : next'[p] = next[p]
      /\ \A p \in 0 .. Size - 1 : next'[p] # Consumed <=> next[p] # Consumed /\ p # right
  <2> DEFINE n == Size
             nxt2 == MergedLinks(next, left)
  <2>0. Links(n, next) /\ left \in 0 .. n - 1 /\ next[left] >= 0
    BY <1>1, <1>2, <1>3
  <2> HIDE DEF n, nxt2
  <2>9. nxt2 = MergedLinks(next, left)
    BY DEF nxt2
  <2>1. /\ right \in left + 1 .. n - 1
        /\ nxt2[left] = after /\ nxt2[right] = Consumed
        /\ \A p \in (0 .. n - 1) \ {left, right} : nxt2[p] = next[p]
        /\ \A p \in 0 .. n - 1 : nxt2[p] # Consumed <=> next[p] # Consumed /\ p # right
    BY ONLY <2>0, <2>9, MergedFacts DEF End, Consumed
  <2> HIDE DEF nxt2
  <2>2. next' = nxt2
    BY <1>3 DEF nxt2
  <2> QED BY <2>1, <2>2 DEF n
<1>7. ASSUME NEW i \in DOMAIN articles
      PROVE  /\ Starts[i] \in 0 .. Size - 1
             /\ next'[Starts[i]] # Consumed
             /\ \A q \in 0 .. Size - 1 : next'[q] # Starts[i]
  <2>1. /\ Starts[i] \in 0 .. Size - 1
        /\ next[Starts[i]] # Consumed
        /\ \A q \in 0 .. Size - 1 : next[q] # Starts[i]
    BY <1>2 DEF StartsKept
  <2>2. right \in 0 .. Size - 1
    BY <1>1, <1>2, <1>6
  <2>3. Starts[i] # right /\ Starts[i] # after
    BY <1>1, <2>1, <2>2
  <2> HIDE DEF right, after
  <2>4. ASSUME NEW q \in 0 .. Size - 1 PROVE next'[q] # Starts[i]
    BY <1>6, <2>1, <2>3
  <2> QED BY <1>6, <2>1, <2>3, <2>4
<1>8. StartsKept'
  BY <1>1, <1>7 DEF StartsKept
<1> QED BY <1>1, <1>2, <1>4, <1>5, <1>8 DEF TrainerList

\* What the neighbours' pairs are made of.
LEMMA AroundTyped ==
  ASSUME ArticlesInv, TrainerInv, NEW left, OccurrenceTaken(left), PairMerged(left)
  PROVE  /\ PairsAround(Size, token, next, previous, left, selected, Newest)
         /\ left \in Nat /\ left \in 0 .. Size - 1
         /\ next[left] \in left + 1 .. Size - 1
         /\ previous[left] \in Int /\ previous[left] < left
         /\ previous[left] >= 0 => previous[left] \in 0 .. Size - 1
         /\ next[next[left]] \in Int
         /\ next[next[left]] >= 0 => next[next[left]] \in next[left] + 1 .. Size - 1
         /\ \A p \in 0 .. Size - 1 : token[p] \in Token
         /\ Newest \in Token /\ Size \in Nat
<1> USE DEF End, Consumed
<1> DEFINE right == next[left]
           before == previous[left]
           after == next[right]
<1>1. PairsAround(Size, token, next, previous, left, selected, Newest)
  BY AroundMerge DEF PairMerged
<1>2. /\ pc \in Training /\ TrainerList /\ left \in 0 .. Size - 1
  BY DEF OccurrenceTaken, TrainerInv, Training
<1>3. /\ Size \in Nat /\ Newest \in Nat /\ 0 .. Newest \subseteq Token
      /\ token \in [0 .. Size - 1 -> 0 .. Newest]
  BY <1>2, ListNumbers DEF TrainerList
<1>4. /\ right \in left + 1 .. Size - 1
      /\ before \in (0 .. left - 1) \union {End, Consumed}
      /\ after \in (right + 1 .. Size - 1) \union {End}
  BY <1>1 DEF PairsAround
<1> HIDE DEF right, before, after
<1>5. /\ left \in Nat /\ right \in Nat /\ before \in Int /\ before < left
      /\ before >= 0 => before \in 0 .. Size - 1
      /\ after \in Int
      /\ after >= 0 => after \in right + 1 .. Size - 1
  BY <1>2, <1>3, <1>4
<1>6. \A p \in 0 .. Size - 1 : token[p] \in Token
  BY <1>3
<1>7. Newest \in Token
  BY <1>3
<1> QED BY <1>1, <1>2, <1>3, <1>4, <1>5, <1>6, <1>7 DEF right, before, after

\* What its touching of the pairs does to the set of those touched, and the positions
\* noted with them.
LEMMA TouchedPairs ==
  ASSUME ArticlesInv, TrainerInv, NEW left, OccurrenceTaken(left), PairMerged(left)
  PROVE  LET right == next[left]
             before == previous[left]
             after == next[right]
             gone == Perhaps(before, <<token[before], token[left]>>)
                       \o Perhaps(after, <<token[right], token[after]>>)
             came == Perhaps(before, << <<token[before], Newest>>, before>>)
                       \o Perhaps(after, << <<Newest, token[after]>>, left>>)
         IN /\ IsOfTwo(gone, before, <<token[before], token[left]>>, after, <<token[right], token[after]>>)
            /\ IsOfTwo(came, before, << <<token[before], Newest>>, before>>,
                       after, << <<Newest, token[after]>>, left>>)
            /\ changed' = changed \union Range(gone) \union {entry[1] : entry \in Range(came)}
            /\ changed' \in SUBSET Pair /\ selected \in changed'
            /\ before >= 0 => <<token[before], token[left]>> \in changed'
            /\ after >= 0 => <<token[right], token[after]>> \in changed'
            /\ before >= 0 => <<token[before], Newest>> \in changed'
            /\ after >= 0 => <<Newest, token[after]>> \in changed'
<1> DEFINE right == next[left]
           before == previous[left]
           after == next[right]
           y == <<token[before], token[left]>>
           z == <<token[right], token[after]>>
           y2 == <<token[before], Newest>>
           z2 == <<Newest, token[after]>>
           v == <<y2, before>>
           w == <<z2, left>>
           gone == Perhaps(before, y) \o Perhaps(after, z)
           came == Perhaps(before, v) \o Perhaps(after, w)
<1>1. /\ left \in 0 .. Size - 1 /\ right \in left + 1 .. Size - 1 /\ before \in Int /\ after \in Int
      /\ before >= 0 => before \in 0 .. Size - 1
      /\ after >= 0 => after \in right + 1 .. Size - 1
      /\ \A p \in 0 .. Size - 1 : token[p] \in Token
      /\ Newest \in Token /\ Size \in Nat /\ left \in Nat
  BY AroundTyped
<1>2. changed' = changed \union Range(gone) \union {entry[1] : entry \in Range(came)}
  BY DEF PairMerged
<1>3. selected \in Pair /\ changed \in SUBSET Pair /\ selected \in changed
  BY DEF TrainerInv, Counted, OccurrenceTaken
<1> HIDE DEF right, before, after, y, z, v, w, y2, z2, gone, came
<1>4. right \in 0 .. Size - 1 /\ (after >= 0 => after \in 0 .. Size - 1)
  BY <1>1
<1>5. /\ before >= 0 => y \in Pair /\ y2 \in Pair
      /\ after >= 0 => z \in Pair /\ z2 \in Pair
  BY <1>1, <1>4 DEF y, z, y2, z2, Pair
<1>6. IsOfTwo(gone, before, y, after, z)
  BY <1>1, OfTwo DEF gone
<1>7. IsOfTwo(came, before, v, after, w)
  BY <1>1, OfTwo DEF came
<1>8. v[1] = y2 /\ w[1] = z2
  BY DEF v, w
<1>9. ASSUME NEW q \in Range(gone) PROVE (before >= 0 /\ q = y) \/ (after >= 0 /\ q = z)
  BY <1>6, <1>9 DEF IsOfTwo, Range
<1>10. ASSUME NEW entry \in Range(came)
       PROVE  (before >= 0 /\ entry[1] = y2) \/ (after >= 0 /\ entry[1] = z2)
  BY <1>7, <1>8, <1>10 DEF IsOfTwo, Range
<1>11. /\ before >= 0 => y \in Range(gone) /\ v \in Range(came)
       /\ after >= 0 => z \in Range(gone) /\ w \in Range(came)
  BY <1>6, <1>7 DEF IsOfTwo, Range
<1>12. /\ before >= 0 => y \in changed' /\ y2 \in changed'
       /\ after >= 0 => z \in changed' /\ z2 \in changed'
  BY <1>2, <1>8, <1>11
<1>13. changed' \in SUBSET Pair
  <2>1. Range(gone) \subseteq Pair
    BY <1>5, <1>9
  <2>2. {entry[1] : entry \in Range(came)} \subseteq Pair
    BY <1>5, <1>10
  <2> QED BY <1>2, <1>3, <2>1, <2>2
<1>14. selected \in changed'
  BY <1>2, <1>3
<1> QED
  BY <1>2, <1>6, <1>7, <1>12, <1>13, <1>14
     DEF right, before, after, y, z, y2, z2, v, w, gone, came

\* The counts are again what counting would give.
LEMMA CountsCorrected ==
  ASSUME ArticlesInv, TrainerInv, NEW left, OccurrenceTaken(left), PairMerged(left)
  PROVE  /\ counts' = [pair \in Pair |-> Cardinality(Occurrences(pair)')]
         /\ \A pair \in Pair \ changed' : counts'[pair] = counts[pair]
<1> DEFINE right == next[left]
           before == previous[left]
           after == next[right]
           y == <<token[before], token[left]>>
           z == <<token[right], token[after]>>
           y2 == <<token[before], Newest>>
           z2 == <<Newest, token[after]>>
           v == <<y2, before>>
           w == <<z2, left>>
           gone == Perhaps(before, y) \o Perhaps(after, z)
           came == Perhaps(before, v) \o Perhaps(after, w)
           tok2 == MergedTokens(token, left, Newest)
           nxt2 == MergedLinks(next, left)
<1>1. /\ before \in Int /\ after \in Int /\ Size \in Nat
  BY AroundTyped
<1>2. /\ pc = "merge" /\ pc' = "merge" /\ Size' = Size
      /\ next \in [0 .. Size - 1 -> (0 .. Size - 1) \union {End, Consumed}]
      /\ next' \in [0 .. Size - 1 -> (0 .. Size - 1) \union {End, Consumed}]
  BY ListMerged DEF OccurrenceTaken, Size, TrainerInv, TrainerList, Training, Links
<1>3. /\ token' = tok2 /\ next' = nxt2
      /\ counts' = [pair \in Pair |->
           counts[pair] - Times(pair, <<selected>> \o gone)
             + Times(pair, [i \in DOMAIN came |-> came[i][1]])]
  BY DEF PairMerged
<1>4. Recounted(Size, token, next, previous, left, selected, Newest)
  BY CountMerged DEF PairMerged
<1>5. \A q : Cardinality(Spots(Size, tok2, nxt2, q)) =
        Cardinality(Spots(Size, token, next, q))
          - (Here(0, selected, q) + Here(before, y, q) + Here(after, z, q))
          + (Here(before, y2, q) + Here(after, z2, q))
  BY <1>4 DEF Recounted
<1>6. /\ selected \in changed'
      /\ before >= 0 => y \in changed' /\ y2 \in changed'
      /\ after >= 0 => z \in changed' /\ z2 \in changed'
  BY TouchedPairs
<1>7. counts = [pair \in Pair |-> Cardinality(Occurrences(pair))]
  BY <1>2 DEF TrainerInv, Counted
<1> HIDE DEF right, before, after, y, z, v, w, y2, z2, gone, came, tok2, nxt2
<1>8. ASSUME NEW q
      PROVE  /\ Times(q, <<selected>> \o gone) = Here(0, selected, q) + Here(before, y, q) + Here(after, z, q)
             /\ Times(q, [i \in DOMAIN came |-> came[i][1]]) = Here(before, y2, q) + Here(after, z2, q)
  <2> DEFINE S == {selected, y, z, y2, z2}
             one == <<selected>>
             none == <<>>
  <2>1. one \in Seq(S) /\ none \in Seq(S) /\ selected \in S /\ y \in S /\ z \in S /\ y2 \in S /\ z2 \in S
    OBVIOUS
  <2>2. Times(q, one) = Here(0, selected, q)
    <3>1. /\ Times(q, none \o <<selected>>) = Times(q, none) + IF selected = q THEN 1 ELSE 0
          /\ Times(q, none) = 0
      BY <2>1, TimesAppend
    <3>2. none \o <<selected>> = <<selected>>
      BY <2>1, ConcatEmptySeq
    <3> QED BY <3>1, <3>2 DEF Here
  <2> HIDE DEF S, one, none
  <2>3. Times(q, one \o gone) = Times(q, one) + Here(before, y, q) + Here(after, z, q)
    BY <1>1, <2>1, TimesOfTwo DEF gone
  <2>4. [i \in DOMAIN came |-> came[i][1]] = Perhaps(before, y2) \o Perhaps(after, z2)
    <3>1. came = Perhaps(before, v) \o Perhaps(after, w)
      BY DEF came
    <3>2. Firsts(came) = Perhaps(before, v[1]) \o Perhaps(after, w[1])
      BY ONLY <1>1, <3>1, FirstsOfTwo
    <3>3. v[1] = y2 /\ w[1] = z2
      BY DEF v, w
    <3> QED BY <3>2, <3>3 DEF Firsts
  <2> DEFINE c == Perhaps(before, y2) \o Perhaps(after, z2)
  <2>5. Times(q, none \o c) = Times(q, none) + Here(before, y2, q) + Here(after, z2, q)
    BY <1>1, <2>1, TimesOfTwo
  <2>6. Times(q, none) = 0
    BY <2>1, TimesAppend DEF none
  <2>7. none \o c = c
    <3>1. c \in Seq(S)
      <4>1. Perhaps(before, y2) \in Seq(S) /\ Perhaps(after, z2) \in Seq(S)
        BY <1>1, <2>1, PerhapsFacts
      <4> QED BY <4>1, ConcatProperties
    <3> HIDE DEF c
    <3> QED BY <3>1, ConcatEmptySeq DEF none
  <2>8. Here(before, y2, q) \in Int /\ Here(after, z2, q) \in Int
    BY DEF Here
  <2> HIDE DEF c
  <2>9. Times(q, c) = Here(before, y2, q) + Here(after, z2, q)
    BY <2>5, <2>6, <2>7, <2>8
  <2>10. Times(q, <<selected>> \o gone) = Here(0, selected, q) + Here(before, y, q) + Here(after, z, q)
    BY <2>2, <2>3 DEF one
  <2> QED BY <2>4, <2>9, <2>10 DEF c
<1>9. ASSUME NEW q
      PROVE  /\ Occurrences(q) = Spots(Size, token, next, q)
             /\ Occurrences(q)' = Spots(Size, token', next', q)
  <2>1. Occurrences(q) = Spots(Size, token, next, q)
    BY <1>2, OccurrencesAreSpots
  <2>2. Occurrences(q)' = Spots(Size, token', next', q)
    BY <1>2 DEF Occurrences, IsPairAt, PairAt, Spots, HasPair
  <2> QED BY <2>1, <2>2
<1>10. ASSUME NEW pair \in Pair
       PROVE  /\ counts'[pair] = Cardinality(Occurrences(pair)')
              /\ pair \notin changed' => counts'[pair] = counts[pair]
  <2> DEFINE c == Cardinality(Spots(Size, token, next, pair))
             a == Here(0, selected, pair) + Here(before, y, pair) + Here(after, z, pair)
             b == Here(before, y2, pair) + Here(after, z2, pair)
  <2>1. /\ counts[pair] = c
        /\ counts'[pair] = counts[pair] - Times(pair, <<selected>> \o gone)
             + Times(pair, [i \in DOMAIN came |-> came[i][1]])
        /\ Cardinality(Occurrences(pair)') = Cardinality(Spots(Size, tok2, nxt2, pair))
    BY <1>3, <1>7, <1>9
  <2>2. /\ Times(pair, <<selected>> \o gone) = a
        /\ Times(pair, [i \in DOMAIN came |-> came[i][1]]) = b
        /\ Cardinality(Spots(Size, tok2, nxt2, pair)) = c - a + b
    BY <1>5, <1>8
  <2>3. c \in Nat
    BY <1>1, SpotsFinite
  <2>4. pair \notin changed' => a = 0 /\ b = 0
    BY <1>6 DEF Here
  <2> HIDE DEF a, b, c
  <2> QED BY <2>1, <2>2, <2>3, <2>4
<1>11. counts' = [pair \in Pair |-> counts'[pair]]
  BY <1>3
<1> QED BY <1>10, <1>11

\* The positions that are noted are in the list, at the end of those noted before.
LEMMA OccurrencesNoted ==
  ASSUME ArticlesInv, TrainerInv, NEW left, OccurrenceTaken(left), PairMerged(left), NEW q \in Pair
  PROVE  \E e \in Seq(0 .. Size - 1) :
           /\ occurrences'[q] = occurrences[q] \o e
           /\ IsExtra(e, previous[left], <<token[previous[left]], Newest>>, previous[left],
                      next[next[left]], <<Newest, token[next[next[left]]]>>, left, q)
<1> DEFINE before == previous[left]
           after == next[next[left]]
           y2 == <<token[before], Newest>>
           z2 == <<Newest, token[after]>>
           came == Perhaps(before, <<y2, before>>) \o Perhaps(after, <<z2, left>>)
           e == Extra(came, q)
           S == 0 .. Size - 1
<1>1. /\ before \in Int /\ after \in Int
      /\ before >= 0 => before \in S
      /\ left \in S
  BY AroundTyped
<1>2. IsOfTwo(came, before, <<y2, before>>, after, <<z2, left>>)
  BY TouchedPairs
<1>3. occurrences' = [pair \in Pair |-> occurrences[pair] \o Extra(came, pair)]
  BY DEF PairMerged
<1> HIDE DEF before, after, y2, z2, came, S
<1>4. IsExtra(e, before, y2, before, after, z2, left, q)
  BY <1>1, <1>2, ExtraFacts
<1> HIDE DEF e
<1>5. e \in Seq(S)
  <2>1. e \in Seq({before, left}) /\ \A x \in Range(e) : x \in S
    BY <1>1, <1>4 DEF IsExtra
  <2> DEFINE T == {before, left}
             n == Len(e)
  <2>2. n \in Nat /\ DOMAIN e = 1 .. n /\ e = [i \in 1 .. n |-> e[i]]
    <3>1. e \in Seq(T)
      BY <2>1
    <3> HIDE DEF T
    <3> QED BY <3>1, LenProperties
  <2>3. \A i \in 1 .. n : e[i] \in S
    BY <2>1, <2>2 DEF Range
  <2> HIDE DEF n
  <2> QED BY <2>2, <2>3
<1>6. occurrences'[q] = occurrences[q] \o e
  BY <1>3 DEF e
<1> QED BY <1>4, <1>5, <1>6 DEF before, after, y2, z2, S

\* The cursor moves on, and the counts stay what counting would give.
LEMMA OccurrenceCounted ==
  ASSUME ArticlesInv, TrainerInv, NEW left, OccurrenceTaken(left)
  PROVE  TrainerInv'
<1>1. /\ pc = "merge" /\ pc' = "merge" /\ cursor \in DOMAIN occurrences[selected]
      /\ PairGone(left) \/ PairMerged(left)
      /\ cursor' = cursor + 1
      /\ UNCHANGED <<articles, file, heap, selected>>
      /\ Size' = Size /\ Newest' = Newest /\ Starts' = Starts
  BY DEF OccurrenceTaken, Size, Newest, Starts
<1>2. /\ counts = [pair \in Pair |-> Cardinality(Occurrences(pair))]
      /\ occurrences \in [Pair -> Seq(0 .. Size - 1)]
      /\ heap \subseteq Nat \X Pair
      /\ \A pair \in Pair : counts[pair] > 0 /\ pair \notin changed => <<counts[pair], pair>> \in heap
      /\ selected \in Pair /\ changed \in SUBSET Pair /\ selected \in changed
      /\ cursor \in Nat \ {0}
  BY <1>1 DEF TrainerInv, Counted
<1>3. GreedyChoice' /\ cursor' \in Nat \ {0}
  BY <1>1, <1>2 DEF GreedyChoice
<1>4. CASE PairGone(left)
  <2>1. UNCHANGED <<listVars, counts, occurrences, changed>>
    BY <1>4 DEF PairGone
  <2>2. TrainerList'
    <3>1. TrainerList /\ pc \in Training
      BY <1>1 DEF TrainerInv, Training
    <3>2. StartsKept => StartsKept'
      BY <1>1, <2>1 DEF StartsKept, listVars
    <3> QED BY <1>1, <2>1, <3>1, <3>2 DEF TrainerList, listVars
  <2>3. counts' = [pair \in Pair |-> Cardinality(Occurrences(pair)')]
    <3>1. \A pair : Occurrences(pair)' = Occurrences(pair)
      BY <2>1, OccurrencesKept
    <3> QED BY <1>2, <2>1, <3>1
  <2>4. Counted'
    BY <1>1, <1>2, <1>3, <2>1, <2>3 DEF Counted
  <2> QED BY <1>1, <2>2, <2>4 DEF TrainerInv
<1>5. CASE PairMerged(left)
  <2>1. TrainerList'
    BY <1>5, ListMerged
  <2>2. /\ counts' = [pair \in Pair |-> Cardinality(Occurrences(pair)')]
        /\ \A pair \in Pair \ changed' : counts'[pair] = counts[pair]
    BY <1>5, CountsCorrected
  <2>3. changed \subseteq changed' /\ changed' \in SUBSET Pair /\ selected \in changed'
    BY <1>5, TouchedPairs
  <2>4. \A pair \in Pair : counts'[pair] > 0 /\ pair \notin changed' => <<counts'[pair], pair>> \in heap
    BY <1>2, <2>2, <2>3
  <2>5. occurrences' \in [Pair -> Seq(0 .. Size - 1)]
    <3> DEFINE S == 0 .. Size - 1
    <3>1. ASSUME NEW q \in Pair PROVE occurrences'[q] \in Seq(S)
      <4>1. PICK e \in Seq(S) : occurrences'[q] = occurrences[q] \o e
        BY <1>5, OccurrencesNoted
      <4>2. occurrences[q] \in Seq(S)
        BY <1>2
      <4> HIDE DEF S
      <4> QED BY <4>1, <4>2, ConcatProperties
    <3>2. occurrences' = [q \in Pair |-> occurrences'[q]]
      BY <1>5 DEF PairMerged
    <3> HIDE DEF S
    <3>3. occurrences' \in [Pair -> Seq(S)]
      BY <3>1, <3>2
    <3> QED BY <3>3 DEF S
  <2>6. Counted'
    BY <1>1, <1>2, <1>3, <2>2, <2>3, <2>4, <2>5 DEF Counted
  <2> QED BY <1>1, <2>1, <2>6 DEF TrainerInv
<1> QED BY <1>1, <1>4, <1>5

\* What the trainer is not doing leaves all this alone.
LEMMA TrainerUnaffected ==
  ASSUME TrainerInv,
         \/ UNCHANGED vars
         \/ NoPairLeft \/ GivenFile \/ Parse \/ Parsed
         \/ \E bytes \in OtherTexts \union Range(articles) : EncodeText(bytes)
         \/ EncodeStep \/ Generate
  PROVE  TrainerInv'
<1>1. CASE UNCHANGED vars
  <2>1. /\ UNCHANGED <<pc, articles, file, counts, occurrences, heap, selected, cursor, changed>>
        /\ UNCHANGED listVars /\ UNCHANGED <<token, previous, next>>
        /\ Size' = Size /\ Newest' = Newest /\ Starts' = Starts
    BY <1>1 DEF vars, encodingVars, trainerVars, listVars, Size, Newest, Starts
  <2>2. \A pair : Occurrences(pair)' = Occurrences(pair)
    BY <2>1, OccurrencesKept
  <2>3. TrainerList'
    BY <2>1 DEF TrainerInv, TrainerList, StartsKept
  <2>4. GreedyChoice => GreedyChoice'
    BY <2>1, <2>2 DEF GreedyChoice
  <2>5. Counted'
    <3>1. counts = [pair \in Pair |-> Cardinality(Occurrences(pair))]
             => counts' = [pair \in Pair |-> Cardinality(Occurrences(pair)')]
      BY <2>1, <2>2
    <3> QED BY <2>1, <2>4, <3>1 DEF TrainerInv, Counted
  <2> QED BY <2>1, <2>3, <2>5 DEF TrainerInv
<1>2. ASSUME pc' \notin Training \union {"start"} PROVE TrainerInv'
  BY <1>2 DEF TrainerInv, TrainerList, Counted, Training
<1>3. CASE NoPairLeft \/ GivenFile \/ Parsed
  <2>1. pc' \in {"insufficient", "parse", "ready"}
    BY <1>3 DEF NoPairLeft, GivenFile, Parsed
  <2> QED BY <1>2, <2>1 DEF Training
<1>4. CASE Parse
  <2>1. pc' \in {"parse", "rejected"}
    BY <1>4 DEF Parse, ParseMerge
  <2> QED BY <1>2, <2>1 DEF Training
<1>5. CASE \E bytes \in OtherTexts \union Range(articles) : EncodeText(bytes)
  <2>1. pc' \in {"encode"}
    BY <1>5 DEF EncodeText, Encode
  <2> QED BY <1>2, <2>1 DEF Training
<1>6. CASE EncodeStep
  <2>1. pc' \in {"encode", "encoded"}
    BY <1>6 DEF EncodeStep, SkipStale, Merge, Collect
  <2> QED BY <1>2, <2>1 DEF Training
<1>7. CASE Generate
  <2>1. pc' \notin Training \union {"start"}
    BY <1>7 DEF Generate, StartGeneration, GenerateToken, StepFails, StepsExhausted, Training
  <2> QED BY <1>2, <2>1
<1> QED BY <1>1, <1>3, <1>4, <1>5, <1>6, <1>7

LEMMA TrainerStep ==
  ASSUME ArticlesInv, TrainerInv, [Next]_vars
  PROVE  TrainerInv'
<1>1. CASE StartTraining
  BY <1>1, TrainingStarted
<1>2. CASE CountPairs
  BY <1>2, PairsCounted
<1>3. CASE DropOutdated
  BY <1>3, OutdatedDropped
<1>4. CASE SelectPair
  BY <1>4, PairSelected
<1>5. CASE MergeOccurrence
  <2>1. OccurrenceTaken(occurrences[selected][cursor])
    BY <1>5, TakeOccurrence
  <2> QED BY <2>1, OccurrenceCounted
<1>6. CASE FinishMerge
  BY <1>6, MergeFinished
<1>7. CASE ~(StartTraining \/ CountPairs \/ DropOutdated \/ SelectPair \/ MergeOccurrence \/ FinishMerge)
  BY <1>7, TrainerUnaffected DEF Next
<1> QED BY <1>1, <1>2, <1>3, <1>4, <1>5, <1>6, <1>7

LEMMA TrainerSafe == Spec => []TrainerInv
<1>1. Init => TrainerInv
  BY DEF Init, TrainerInv, TrainerList, Counted, Training
<1>2. ArticlesInv /\ TrainerInv /\ [Next]_vars => TrainerInv'
  BY TrainerStep
<1> QED BY <1>1, <1>2, ArticlesTyped, PTL DEF Spec

\* GreedyChoice, for every corpus: the pair the trainer takes from its heap is the
\* most frequent one in the articles as they are tokenized then (and the smallest of
\* those), although nicopedia_bpe_train.cpp corrects its counts at each merge and
\* recognises outdated entries by them, and never looks at the articles again.
THEOREM TrainerIsGreedy == Spec => []GreedyChoice
<1>1. TrainerInv => GreedyChoice
  BY DEF TrainerInv, Counted, GreedyChoice
<1> QED BY <1>1, TrainerSafe, PTL

-----------------------------------------------------------------------------
(* What is noted of the pairs. *)

\* Every place of a pair is noted, in order; nothing is noted of a pair with a
\* token that is not made yet.
Noted ==
  pc \in {"select", "merge"} =>
    \A pair \in Pair :
      /\ Increasing(occurrences[pair])
      /\ \A p \in 0 .. Size - 1 :
           HasPair(token, next, pair, p) => p \in Range(occurrences[pair])
      /\ \A k \in 1 .. 2 :
           pair[k] > Newest \/ (pair[k] = Newest /\ pc # "merge") => occurrences[pair] = <<>>

\* A place where the new token stands.
IsNew(m) == m \in 0 .. Size - 1 /\ next[m] # Consumed /\ token[m] = Newest

\* What is left of the pair under way lies ahead of the cursor, what has become of
\* it lies behind, and so does what is noted of the new token.
UnderWay ==
  pc = "merge" =>
    /\ selected[1] < Newest /\ selected[2] < Newest
    /\ \A p \in 0 .. Size - 1 : HasPair(token, next, selected, p) =>
         \E k \in DOMAIN occurrences[selected] : k >= cursor /\ occurrences[selected][k] = p
    /\ \A m : IsNew(m) =>
         \A k \in DOMAIN occurrences[selected] : k >= cursor => m < occurrences[selected][k]
    /\ \A pair \in Pair : pair[1] = Newest \/ pair[2] = Newest =>
         \A x \in Range(occurrences[pair]) :
           \E m : IsNew(m) /\ IF pair[2] = Newest THEN x < m ELSE x <= m

NotedInv == Noted /\ UnderWay

Found(n, tok, nxt, q, p) == Links(n, nxt) /\ p \in 0 .. n - 1 /\ HasPair(tok, nxt, q, p)

LEMMA PairFound ==
  ASSUME NEW n, NEW tok, NEW nxt, NEW q, NEW p, Found(n, tok, nxt, q, p)
  PROVE  nxt[p] \in 0 .. n - 1 /\ q[1] = tok[p] /\ q[2] = tok[nxt[p]]
<1>1. nxt[p] >= 0 /\ <<tok[p], tok[nxt[p]]>> = q
  BY DEF Found, HasPair
<1>2. nxt[p] \in (0 .. n - 1) \union {End, Consumed}
  BY DEF Found, Links
<1>3. nxt[p] \in 0 .. n - 1
  BY <1>1, <1>2 DEF End, Consumed
<1> QED BY <1>1, <1>3

LEMMA PairNumbers ==
  ASSUME Token \subseteq Nat, NEW q \in Pair
  PROVE  q[1] \in Nat /\ q[2] \in Nat /\ \A k \in 1 .. 2 : q[k] \in Nat
<1>1. q[1] \in Nat /\ q[2] \in Nat
  BY DEF Pair
<1>2. \A k \in 1 .. 2 : k = 1 \/ k = 2
  OBVIOUS
<1> QED BY <1>1, <1>2

LEMMA NotedAtFirst ==
  ASSUME ArticlesInv, TrainerInv, CountPairs
  PROVE  NotedInv'
<1>1. /\ pc = "count" /\ pc' = "select"
      /\ occurrences' = [pair \in Pair |-> InOrder(Occurrences(pair))]
      /\ UNCHANGED <<listVars, articles, file>>
  BY DEF CountPairs
<1>2. /\ Size \in Nat /\ Newest \in Nat /\ Size' = Size /\ Newest' = Newest
      /\ token' = token /\ next' = next /\ Links(Size, next)
      /\ next \in [0 .. Size - 1 -> (0 .. Size - 1) \union {End, Consumed}]
      /\ token \in [0 .. Size - 1 -> 0 .. Newest]
      /\ \A p \in 0 .. Size - 1 : token[p] # Newest
  <2>1. pc \in Training /\ TrainerList
    BY <1>1 DEF TrainerInv, Training
  <2> QED BY <1>1, <2>1, ListNumbers DEF Size, Newest, listVars, TrainerList
<1>3. ASSUME NEW pair \in Pair
      PROVE  /\ Increasing(occurrences'[pair])
             /\ \A p \in 0 .. Size - 1 :
                  HasPair(token, next, pair, p) => p \in Range(occurrences'[pair])
             /\ \A k \in 1 .. 2 : pair[k] > Newest \/ pair[k] = Newest => occurrences'[pair] = <<>>
  <2> DEFINE A == Spots(Size, token, next, pair)
             s == InOrder(A)
  <2>1. A \in SUBSET Nat /\ IsFiniteSet(A)
    BY <1>2, SpotsFinite
  <2>2. occurrences'[pair] = s
    <3>1. Occurrences(pair) = A
      BY <1>2, OccurrencesAreSpots
    <3> HIDE DEF A
    <3> QED BY <1>1, <3>1
  <2>3. IsInOrder(s, A)
    <3> HIDE DEF A
    <3> QED BY <2>1, Ordered
  <2> HIDE DEF s
  <2>4. \A p \in 0 .. Size - 1 : HasPair(token, next, pair, p) => p \in Range(s)
    BY <2>3 DEF IsInOrder, Spots
  <2>5. ASSUME NEW k \in 1 .. 2, pair[k] > Newest \/ pair[k] = Newest PROVE s = <<>>
    <3>1. \A p \in 0 .. Size - 1 : token[p] < Newest
      BY <1>2
    <3>2. ASSUME NEW p \in A PROVE FALSE
      <4>0. p \in 0 .. Size - 1 /\ HasPair(token, next, pair, p)
        BY DEF Spots
      <4>1. next[p] \in 0 .. Size - 1 /\ pair[1] = token[p] /\ pair[2] = token[next[p]]
        <5>1. Found(Size, token, next, pair, p)
          BY <1>2, <4>0 DEF Found
        <5> QED BY <5>1, PairFound
      <4>2. /\ pair[1] \in Nat /\ pair[1] < Newest
            /\ pair[2] \in Nat /\ pair[2] < Newest
        BY <1>2, <3>1, <4>0, <4>1
      <4>3. k = 1 \/ k = 2
        OBVIOUS
      <4>4. pair[k] \in Nat /\ pair[k] < Newest
        BY <4>2, <4>3
      <4> DEFINE x == pair[k]
      <4>5. (x > Newest \/ x = Newest) /\ x \in Nat /\ x < Newest
        BY <2>5, <4>4
      <4> HIDE DEF x
      <4> QED BY <1>2, <4>5
    <3>3. s \in Seq(A)
      BY <2>3 DEF IsInOrder
    <3> HIDE DEF A
    <3>4. Len(s) \in Nat /\ DOMAIN s = 1 .. Len(s) /\ \A i \in 1 .. Len(s) : s[i] \in A
      BY <3>3, ElementOfSeq, LenProperties
    <3>5. Len(s) = 0
      BY <3>2, <3>4
    <3> QED BY <3>3, <3>5, EmptySeq
  <2>6. Increasing(s)
    BY <2>3 DEF IsInOrder
  <2> QED BY <2>2, <2>4, <2>5, <2>6
<1>4. Noted'
  BY <1>1, <1>2, <1>3 DEF Noted
<1>5. UnderWay'
  BY <1>1 DEF UnderWay
<1> QED BY <1>4, <1>5 DEF NotedInv

LEMMA NotedWhenDropped ==
  ASSUME NotedInv, DropOutdated
  PROVE  NotedInv'
<1>1. /\ pc = "select" /\ pc' = "select"
      /\ UNCHANGED <<listVars, articles, file, occurrences>>
      /\ Size' = Size /\ Newest' = Newest /\ token' = token /\ next' = next
  BY DEF DropOutdated, encodingVars, listVars, Size, Newest
<1> QED BY <1>1 DEF NotedInv, Noted, UnderWay

\* A pair that is selected is somewhere in the articles, and all of it lies ahead.
LEMMA NotedWhenSelected ==
  ASSUME ArticlesInv, TrainerInv, NotedInv, SelectPair
  PROVE  NotedInv'
<1>1. PICK entry \in heap : UpToDate(entry) /\ selected' = entry[2]
  BY DEF SelectPair
<1>2. /\ pc = "select" /\ pc' = "merge" /\ cursor' = 1
      /\ UNCHANGED <<listVars, articles, file, occurrences>>
      /\ Size' = Size /\ Newest' = Newest /\ token' = token /\ next' = next
  BY DEF SelectPair, listVars, Size, Newest
<1>3. /\ counts = [pair \in Pair |-> Cardinality(Occurrences(pair))]
      /\ occurrences \in [Pair -> Seq(0 .. Size - 1)]
      /\ heap \subseteq Nat \X Pair
  BY <1>2 DEF TrainerInv, Counted
<1>4. /\ Size \in Nat /\ Newest \in Nat /\ Token \subseteq Nat /\ Links(Size, next)
      /\ next \in [0 .. Size - 1 -> (0 .. Size - 1) \union {End, Consumed}]
      /\ token \in [0 .. Size - 1 -> 0 .. Newest]
      /\ \A p \in 0 .. Size - 1 : token[p] # Newest
  <2>1. pc \in Training /\ TrainerList
    BY <1>2 DEF TrainerInv, Training
  <2> QED BY <1>2, <2>1, ListNumbers DEF TrainerList
<1>5. \A pair \in Pair :
        /\ Increasing(occurrences[pair])
        /\ \A p \in 0 .. Size - 1 :
             HasPair(token, next, pair, p) => p \in Range(occurrences[pair])
        /\ \A k \in 1 .. 2 : pair[k] > Newest \/ pair[k] = Newest => occurrences[pair] = <<>>
  BY <1>2 DEF NotedInv, Noted
<1>6. Noted'
  BY <1>2, <1>5 DEF Noted
<1>7. selected' \in Pair /\ Occurrences(selected') # {}
  <2>1. entry[2] \in Pair /\ Cardinality(Occurrences(entry[2])) > 0
    BY <1>1, <1>3 DEF UpToDate
  <2>2. Cardinality({}) = 0
    BY FS_EmptySet
  <2> QED BY <1>1, <2>1, <2>2
<1>8. selected'[1] < Newest /\ selected'[2] < Newest
  <2>1. PICK p \in 0 .. Size - 1 : HasPair(token, next, selected', p)
    BY <1>4, <1>7 DEF Occurrences, IsPairAt, PairAt, HasPair
  <2>2. next[p] \in 0 .. Size - 1 /\ selected'[1] = token[p] /\ selected'[2] = token[next[p]]
    BY <1>4, <2>1, PairFound DEF Found
  <2>3. token[p] < Newest /\ token[next[p]] < Newest
    BY <1>4, <2>2
  <2> QED BY <2>2, <2>3
<1>9. ASSUME NEW p \in 0 .. Size - 1, HasPair(token, next, selected', p)
      PROVE  \E k \in DOMAIN occurrences[selected'] : k >= 1 /\ occurrences[selected'][k] = p
  <2> DEFINE s == occurrences[selected']
             S == 0 .. Size - 1
  <2>1. p \in Range(s)
    BY <1>5, <1>7, <1>9
  <2>2. s \in Seq(S)
    BY <1>3, <1>7
  <2> HIDE DEF s, S
  <2>3. PICK k \in DOMAIN s : s[k] = p
    BY <2>1 DEF Range
  <2>4. k >= 1
    BY <2>2, LenProperties
  <2> QED BY <2>3, <2>4 DEF s
<1>10. \A m : ~IsNew(m)'
  BY <1>2, <1>4 DEF IsNew
<1>11. ASSUME NEW pair \in Pair, pair[1] = Newest \/ pair[2] = Newest
       PROVE  Range(occurrences[pair]) = {}
  <2>1. occurrences[pair] = <<>>
    BY <1>5, <1>11
  <2> QED BY <2>1 DEF Range
<1>12. UnderWay'
  BY <1>2, <1>8, <1>9, <1>10, <1>11 DEF UnderWay
<1> QED BY <1>6, <1>12 DEF NotedInv

LEMMA NotedWhenFinished ==
  ASSUME ArticlesInv, TrainerInv, NotedInv, FinishMerge
  PROVE  NotedInv'
<1>1. /\ pc = "merge" /\ pc' \in {"parse", "select"} /\ file' = Append(file, selected)
      /\ UNCHANGED <<listVars, articles, occurrences>>
      /\ Size' = Size /\ token' = token /\ next' = next
  BY DEF FinishMerge, listVars, Size
<1>2. Newest' = Newest + 1 /\ Newest \in Nat /\ Token \subseteq Nat
  <2>1. pc \in Training /\ TrainerList /\ selected \in Pair
    BY <1>1 DEF TrainerInv, Training, Counted
  <2>2. file \in Seq(Pair) /\ Len(file) \in Nat /\ Newest \in Nat /\ Token \subseteq Nat
    BY <2>1, ListNumbers DEF TrainerList
  <2>3. Len(file') = Len(file) + 1
    BY <1>1, <2>1, <2>2, AppendProperties
  <2>4. Newest' = ByteCount + Len(file') /\ Newest = ByteCount + Len(file) /\ ByteCount \in Nat
    BY SizesAssumption DEF Newest
  <2> HIDE DEF Newest
  <2> QED BY <2>2, <2>3, <2>4
<1>3. ASSUME NEW pair \in Pair
      PROVE  /\ Increasing(occurrences[pair])
             /\ \A p \in 0 .. Size - 1 :
                  HasPair(token, next, pair, p) => p \in Range(occurrences[pair])
             /\ \A k \in 1 .. 2 :
                  pair[k] > Newest + 1 \/ pair[k] = Newest + 1 => occurrences[pair] = <<>>
  <2>1. /\ Increasing(occurrences[pair])
        /\ \A p \in 0 .. Size - 1 :
             HasPair(token, next, pair, p) => p \in Range(occurrences[pair])
        /\ \A k \in 1 .. 2 : pair[k] > Newest => occurrences[pair] = <<>>
    BY <1>1 DEF NotedInv, Noted
  <2>2. \A k \in 1 .. 2 : pair[k] \in Nat
    BY <1>2, PairNumbers
  <2>3. \A x \in Nat : x > Newest + 1 \/ x = Newest + 1 => x > Newest
    BY <1>2
  <2> QED BY <2>1, <2>2, <2>3
<1>5. Noted'
  BY <1>1, <1>2, <1>3 DEF Noted
<1>6. UnderWay'
  BY <1>1 DEF UnderWay
<1> QED BY <1>5, <1>6 DEF NotedInv

\* One sequence of positions behind another.
LEMMA Concatenated ==
  ASSUME NEW S, NEW s \in Seq(S), NEW e \in Seq(S)
  PROVE  /\ s \o e \in Seq(S)
         /\ Range(s \o e) = Range(s) \union Range(e)
         /\ Increasing(s) /\ Increasing(e) /\ (\A x \in Range(s), y \in Range(e) : x < y)
              => Increasing(s \o e)
<1> DEFINE t == s \o e
           m == Len(s)
           l == Len(e)
<1>1. /\ t \in Seq(S) /\ m \in Nat /\ l \in Nat
      /\ DOMAIN s = 1 .. m /\ DOMAIN e = 1 .. l /\ DOMAIN t = 1 .. m + l
      /\ \A i \in 1 .. m + l : t[i] = IF i <= m THEN s[i] ELSE e[i - m]
  <2>1. /\ t \in Seq(S) /\ Len(t) = m + l
        /\ \A i \in 1 .. m + l : t[i] = IF i <= m THEN s[i] ELSE e[i - m]
    BY ConcatProperties
  <2>2. DOMAIN s = 1 .. m /\ DOMAIN e = 1 .. l /\ m \in Nat /\ l \in Nat
    BY LenProperties
  <2> HIDE DEF t
  <2>3. DOMAIN t = 1 .. Len(t)
    BY <2>1, LenProperties
  <2> QED BY <2>1, <2>2, <2>3
<1> HIDE DEF t, m, l
<1>2. \A i \in 1 .. m : i \in 1 .. m + l /\ t[i] = s[i]
  BY <1>1
<1>3. ASSUME NEW i \in 1 .. l PROVE i + m \in 1 .. m + l /\ t[i + m] = e[i]
  <2>1. i + m \in 1 .. m + l /\ ~(i + m <= m) /\ i + m - m = i
    BY <1>1
  <2>2. t[i + m] = e[i + m - m]
    BY <1>1, <2>1
  <2> QED BY <2>1, <2>2
<1>4. \A i \in 1 .. m + l : i > m => i - m \in 1 .. l /\ t[i] = e[i - m]
  BY <1>1
<1>5. Range(t) = Range(s) \union Range(e)
  <2>1. ASSUME NEW x \in Range(t) PROVE x \in Range(s) \union Range(e)
    <3>1. PICK i \in 1 .. m + l : x = t[i]
      BY <1>1 DEF Range
    <3>2. CASE i <= m
      <4>1. i \in 1 .. m
        BY <1>1, <3>2
      <4> QED BY <1>1, <1>2, <3>1, <4>1 DEF Range
    <3>3. CASE ~(i <= m)
      <4>1. i - m \in 1 .. l /\ x = e[i - m]
        BY <1>1, <1>4, <3>1, <3>3
      <4> QED BY <1>1, <4>1 DEF Range
    <3> QED BY <3>2, <3>3
  <2>2. ASSUME NEW x \in Range(s) PROVE x \in Range(t)
    BY <1>1, <1>2 DEF Range
  <2>3. ASSUME NEW x \in Range(e) PROVE x \in Range(t)
    <3>1. PICK i \in 1 .. l : x = e[i]
      BY <1>1 DEF Range
    <3> QED BY <1>1, <1>3, <3>1 DEF Range
  <2> QED BY <2>1, <2>2, <2>3
<1>6. ASSUME Increasing(s), Increasing(e), \A x \in Range(s), y \in Range(e) : x < y
      PROVE  Increasing(t)
  <2> SUFFICES ASSUME NEW i \in 1 .. m + l, NEW j \in 1 .. m + l, i < j PROVE t[i] < t[j]
    BY <1>1 DEF Increasing
  <2>1. CASE j <= m
    <3>1. i \in 1 .. m /\ j \in 1 .. m
      BY <1>1, <2>1
    <3> QED BY <1>1, <1>2, <1>6, <3>1 DEF Increasing
  <2>2. CASE i > m
    <3>1. i - m \in 1 .. l /\ j - m \in 1 .. l /\ i - m < j - m /\ t[i] = e[i - m] /\ t[j] = e[j - m]
      BY <1>1, <1>4, <2>2
    <3> QED BY <1>1, <1>6, <3>1 DEF Increasing
  <2>3. CASE i <= m /\ j > m
    <3>1. i \in 1 .. m /\ j - m \in 1 .. l /\ t[j] = e[j - m]
      BY <1>1, <1>4, <2>3
    <3>2. t[i] \in Range(s) /\ t[j] \in Range(e)
      BY <1>1, <1>2, <3>1 DEF Range
    <3> QED BY <1>6, <3>2
  <2> QED BY <1>1, <2>1, <2>2, <2>3
<1> QED BY <1>1, <1>5, <1>6 DEF t

\* Where the pair is no longer there the cursor just moves on.
LEMMA NotedWhenGone ==
  ASSUME ArticlesInv, TrainerInv, NotedInv, NEW left, OccurrenceTaken(left), PairGone(left)
  PROVE  NotedInv'
<1>1. /\ pc = "merge" /\ pc' = "merge" /\ cursor' = cursor + 1
      /\ left = occurrences[selected][cursor]
      /\ UNCHANGED <<articles, file, selected, listVars, occurrences>>
      /\ ~HasPair(token, next, selected, left)
      /\ Size' = Size /\ Newest' = Newest /\ token' = token /\ next' = next
  BY DEF OccurrenceTaken, PairGone, Size, Newest, listVars
<1>2. /\ cursor \in Nat /\ \A k \in DOMAIN occurrences[selected] : k \in Nat
  <2>1. selected \in Pair /\ occurrences \in [Pair -> Seq(0 .. Size - 1)] /\ cursor \in Nat
    BY <1>1 DEF TrainerInv, Counted
  <2> DEFINE s == occurrences[selected]
             S == 0 .. Size - 1
  <2>2. s \in Seq(S)
    BY <2>1
  <2> HIDE DEF s, S
  <2>3. \A k \in DOMAIN s : k \in Nat
    BY <2>2, LenProperties
  <2> QED BY <2>1, <2>3 DEF s
<1>3. Noted'
  BY <1>1 DEF NotedInv, Noted
<1>4. ASSUME NEW p \in 0 .. Size - 1, HasPair(token, next, selected, p)
      PROVE  \E k \in DOMAIN occurrences[selected] :
               k >= cursor + 1 /\ occurrences[selected][k] = p
  <2>1. PICK k \in DOMAIN occurrences[selected] : k >= cursor /\ occurrences[selected][k] = p
    BY <1>1, <1>4 DEF NotedInv, UnderWay
  <2>2. k # cursor
    BY <1>1, <1>4, <2>1
  <2> QED BY <1>2, <2>1, <2>2
<1>5. \A k \in DOMAIN occurrences[selected] : k >= cursor + 1 => k >= cursor
  BY <1>2
<1>6. \A m : IsNew(m)' <=> IsNew(m)
  BY <1>1 DEF IsNew
<1>7. /\ selected[1] < Newest /\ selected[2] < Newest
      /\ \A m : IsNew(m) =>
           \A k \in DOMAIN occurrences[selected] : k >= cursor => m < occurrences[selected][k]
      /\ \A pair \in Pair : pair[1] = Newest \/ pair[2] = Newest =>
           \A x \in Range(occurrences[pair]) :
             \E m : IsNew(m) /\ IF pair[2] = Newest THEN x < m ELSE x <= m
  BY <1>1 DEF NotedInv, UnderWay
<1>8. UnderWay'
  BY <1>1, <1>4, <1>5, <1>6, <1>7 DEF UnderWay
<1> QED BY <1>3, <1>8 DEF NotedInv

\* What a merge means for the places of the new token and of the pairs.
MergeSeen(left) ==
  LET before == previous[left]
      after == next[next[left]]
  IN /\ \A m : IsNew(m)' <=> IsNew(m) \/ m = left
     /\ \A m : IsNew(m) => m \in Nat /\ m < left /\ (before >= 0 => m <= before)
     /\ \A q : \A p \in 0 .. Size - 1 : HasPair(token', next', q, p) =>
          \/ HasPair(token, next, q, p) /\ (q = selected => p # left)
          \/ p = left /\ after >= 0 /\ q = <<Newest, token[after]>>
          \/ p = before /\ before >= 0 /\ q = <<token[before], Newest>>

LEMMA SeeMerge ==
  ASSUME ArticlesInv, TrainerInv, NotedInv, NEW left, OccurrenceTaken(left), PairMerged(left)
  PROVE  MergeSeen(left)
<1> USE DEF End, Consumed
<1> DEFINE right == next[left]
           before == previous[left]
           after == next[right]
           tok2 == MergedTokens(token, left, Newest)
           nxt2 == MergedLinks(next, left)
           n == Size
<1>1. /\ PairsAround(n, token, next, previous, left, selected, Newest)
      /\ left \in Nat /\ left \in 0 .. n - 1
      /\ right \in left + 1 .. n - 1
      /\ before \in Int /\ before < left /\ (before >= 0 => before \in 0 .. n - 1)
      /\ n \in Nat
  BY AroundTyped
<1>2. /\ pc = "merge" /\ pc' = "merge" /\ n' = n /\ Newest' = Newest
      /\ cursor \in DOMAIN occurrences[selected] /\ left = occurrences[selected][cursor]
  BY DEF OccurrenceTaken, Size, Newest
<1>3. /\ token' = tok2 /\ next' = nxt2 /\ next[left] >= 0
  BY DEF PairMerged, MergeAt, HasPair
<1>4. /\ Links(n, next) /\ Adjacent(n, next) /\ BackLinked(n, next, previous)
      /\ token \in [0 .. n - 1 -> 0 .. Newest]
      /\ cursor \in Nat \ {0} /\ selected \in Pair
  BY <1>2 DEF TrainerInv, TrainerList, Counted, Training
<1>5. /\ selected[1] < Newest /\ selected[2] < Newest
      /\ \A m : IsNew(m) =>
           \A k \in DOMAIN occurrences[selected] : k >= cursor => m < occurrences[selected][k]
  BY <1>2 DEF NotedInv, UnderWay
<1>6. /\ selected = <<token[left], token[right]>>
      /\ \A q : /\ \A p \in (0 .. n - 1) \ {before, left, right} :
                     HasPair(tok2, nxt2, q, p) <=> HasPair(token, next, q, p)
                /\ HasPair(tok2, nxt2, q, left) <=> (after >= 0 /\ q = <<Newest, token[after]>>)
                /\ ~HasPair(tok2, nxt2, q, right)
                /\ before >= 0 => (HasPair(tok2, nxt2, q, before) <=> q = <<token[before], Newest>>)
  BY <1>1 DEF PairsAround
<1> HIDE DEF n
<1>7. \A m : IsNew(m) <=> m \in 0 .. n - 1 /\ next[m] # Consumed /\ token[m] = Newest
  BY DEF IsNew, n
<1>8. ASSUME NEW m, IsNew(m) PROVE m \in Nat /\ m < left
  <2>1. m \in Nat
    BY <1>7, <1>8
  <2>2. cursor >= cursor
    BY <1>4
  <2> QED BY <1>2, <1>5, <1>8, <2>1, <2>2
<1>9. ASSUME NEW m, IsNew(m), before >= 0 PROVE m <= before
  <2>1. next[before] = left
    <3>1. next[left] # Consumed
      BY <1>3
    <3>2. before \in 0 .. n - 1 /\ left \in 0 .. n - 1 /\ previous[left] = before
      BY <1>1, <1>9
    <3> HIDE DEF before
    <3> QED BY <1>4, <3>1, <3>2 DEF BackLinked
  <2>2. ASSUME m > before PROVE FALSE
    <3>1. m \in before + 1 .. left - 1
      BY <1>1, <1>8, <1>9, <2>2
    <3>2. before \in 0 .. n - 1 /\ next[before] >= 0
      BY <1>1, <1>9, <2>1
    <3> HIDE DEF before
    <3>3. next[m] = Consumed
      BY <1>4, <2>1, <3>1, <3>2 DEF Adjacent
    <3> QED BY <1>7, <1>9, <3>3
  <2> QED BY <1>1, <1>8, <1>9, <2>2
<1>10. /\ right \in 0 .. n - 1 /\ left # right
       /\ token[left] # Newest /\ token[right] # Newest
  <2>1. right \in 0 .. n - 1 /\ left # right /\ token[left] < Newest /\ token[right] < Newest
    BY <1>1, <1>5, <1>6
  <2>2. token[left] \in Nat /\ token[right] \in Nat
    BY <1>1, <1>4, <2>1
  <2> QED BY <2>1, <2>2
<1>11. /\ \A p \in 0 .. n - 1 : tok2[p] = IF p = left THEN Newest ELSE token[p]
       /\ \A p \in 0 .. n - 1 : nxt2[p] # Consumed <=> next[p] # Consumed /\ p # right
  <2>1. \A p \in 0 .. n - 1 : tok2[p] = IF p = left THEN Newest ELSE token[p]
    BY <1>1, <1>4 DEF MergedTokens
  <2>2. nxt2 = MergedLinks(next, left)
    OBVIOUS
  <2>3. left \in 0 .. n - 1
    BY <1>1
  <2> HIDE DEF nxt2
  <2>4. \A p \in 0 .. n - 1 : nxt2[p] # Consumed <=> next[p] # Consumed /\ p # right
    BY ONLY <1>3, <1>4, <2>2, <2>3, MergedFacts
  <2> QED BY <2>1, <2>4
<1> HIDE DEF tok2, nxt2
<1>12. ASSUME NEW m PROVE IsNew(m)' <=> IsNew(m) \/ m = left
  <2>1. IsNew(m)' <=> m \in 0 .. n - 1 /\ nxt2[m] # Consumed /\ tok2[m] = Newest
    BY <1>2, <1>3 DEF IsNew, n
  <2>2. next[left] # Consumed /\ left \in 0 .. n - 1
    BY <1>1, <1>3
  <2> QED BY <1>7, <1>10, <1>11, <2>1, <2>2
<1>13. ASSUME NEW q, NEW p \in 0 .. n - 1, HasPair(token', next', q, p)
       PROVE  \/ HasPair(token, next, q, p) /\ (q = selected => p # left)
              \/ p = left /\ after >= 0 /\ q = <<Newest, token[after]>>
              \/ p = before /\ before >= 0 /\ q = <<token[before], Newest>>
  <2>1. HasPair(tok2, nxt2, q, p)
    BY <1>3, <1>13
  <2>2. p = before => before >= 0
    BY <1>1
  <2> QED BY <1>6, <2>1, <2>2
<1> QED BY <1>8, <1>9, <1>12, <1>13 DEF MergeSeen, n, right, before, after

\* What is noted with a merge comes behind what was, and has the new token in it.
LEMMA NotedWhenMerged ==
  ASSUME ArticlesInv, TrainerInv, NotedInv, NEW left, OccurrenceTaken(left), PairMerged(left)
  PROVE  NotedInv'
<1> DEFINE before == previous[left]
           after == next[next[left]]
           y2 == <<token[before], Newest>>
           z2 == <<Newest, token[after]>>
           S == 0 .. Size - 1
<1>1. /\ left \in Nat /\ left \in S
      /\ before \in Int /\ before < left /\ (before >= 0 => before \in S)
      /\ after \in Int /\ (after >= 0 => after \in S /\ after > left)
      /\ \A p \in S : token[p] \in Nat /\ token[p] <= Newest
      /\ Newest \in Nat /\ Token \subseteq Nat /\ S \subseteq Nat
  <2>1. /\ left \in Nat /\ left \in S
        /\ next[left] \in left + 1 .. Size - 1
        /\ before \in Int /\ before < left /\ (before >= 0 => before \in S)
        /\ after \in Int /\ (after >= 0 => after \in next[left] + 1 .. Size - 1)
    BY AroundTyped
  <2>2. TrainerList /\ pc \in Training
    BY DEF OccurrenceTaken, TrainerInv, Training
  <2>3. Size \in Nat /\ Newest \in Nat /\ Token \subseteq Nat /\ token \in [S -> 0 .. Newest]
    BY <2>2, ListNumbers DEF TrainerList
  <2> HIDE DEF before, after
  <2> QED BY <2>1, <2>3
<1>2. /\ pc = "merge" /\ pc' = "merge" /\ Size' = Size /\ Newest' = Newest
      /\ UNCHANGED selected /\ cursor' = cursor + 1
      /\ cursor \in DOMAIN occurrences[selected] /\ left = occurrences[selected][cursor]
  BY DEF OccurrenceTaken, Size, Newest
<1>3. /\ \A m : IsNew(m)' <=> IsNew(m) \/ m = left
      /\ \A m : IsNew(m) => m \in Nat /\ m < left /\ (before >= 0 => m <= before)
      /\ \A q : \A p \in S : HasPair(token', next', q, p) =>
           \/ HasPair(token, next, q, p) /\ (q = selected => p # left)
           \/ p = left /\ after >= 0 /\ q = z2
           \/ p = before /\ before >= 0 /\ q = y2
  BY SeeMerge DEF MergeSeen
<1>4. /\ selected[1] < Newest /\ selected[2] < Newest
      /\ \A p \in S : HasPair(token, next, selected, p) =>
           \E k \in DOMAIN occurrences[selected] : k >= cursor /\ occurrences[selected][k] = p
      /\ \A m : IsNew(m) =>
           \A k \in DOMAIN occurrences[selected] : k >= cursor => m < occurrences[selected][k]
      /\ \A q \in Pair : q[1] = Newest \/ q[2] = Newest =>
           \A x \in Range(occurrences[q]) :
             \E m : IsNew(m) /\ IF q[2] = Newest THEN x < m ELSE x <= m
  BY <1>2 DEF NotedInv, UnderWay
<1>5. ASSUME NEW q \in Pair
      PROVE  /\ Increasing(occurrences[q])
             /\ \A p \in S : HasPair(token, next, q, p) => p \in Range(occurrences[q])
             /\ \A k \in 1 .. 2 : q[k] > Newest => occurrences[q] = <<>>
             /\ occurrences[q] \in Seq(S)
             /\ q[1] \in Nat /\ q[2] \in Nat /\ \A k \in 1 .. 2 : q[k] \in Nat
  <2>1. occurrences \in [Pair -> Seq(S)]
    BY <1>2 DEF TrainerInv, Counted
  <2>2. q[1] \in Nat /\ q[2] \in Nat /\ \A k \in 1 .. 2 : q[k] \in Nat
    BY <1>1, PairNumbers
  <2> QED BY <1>2, <2>1, <2>2 DEF NotedInv, Noted
<1>6. ASSUME NEW q \in Pair
      PROVE  \E e \in Seq(S) :
               /\ occurrences'[q] = occurrences[q] \o e
               /\ IsExtra(e, before, y2, before, after, z2, left, q)
  BY OccurrencesNoted
<1>7. /\ y2[2] = Newest /\ z2[1] = Newest
      /\ before >= 0 => y2[1] = token[before]
      /\ after >= 0 => z2[2] = token[after]
  OBVIOUS
<1>13. selected \in Pair /\ cursor \in Nat
  BY <1>2 DEF TrainerInv, Counted
<1> HIDE DEF before, after, y2, z2, S
<1>8. ASSUME NEW q \in Pair
      PROVE  /\ Increasing(occurrences'[q])
             /\ \A p \in S : HasPair(token', next', q, p) => p \in Range(occurrences'[q])
             /\ Range(occurrences[q]) \subseteq Range(occurrences'[q])
             /\ \A x \in Range(occurrences'[q]) :
                  \/ x \in Range(occurrences[q])
                  \/ before >= 0 /\ y2 = q /\ x = before
                  \/ after >= 0 /\ z2 = q /\ x = left
             /\ q[1] # Newest /\ q[2] # Newest => occurrences'[q] = occurrences[q]
             /\ \A k \in 1 .. 2 : q[k] > Newest => occurrences'[q] = <<>>
  <2>1. PICK e \in Seq(S) :
          /\ occurrences'[q] = occurrences[q] \o e
          /\ IsExtra(e, before, y2, before, after, z2, left, q)
    BY <1>6
  <2>2. /\ \A x \in Range(e) : (before >= 0 /\ y2 = q /\ x = before) \/ (after >= 0 /\ z2 = q /\ x = left)
        /\ before >= 0 /\ y2 = q => before \in Range(e)
        /\ after >= 0 /\ z2 = q => left \in Range(e)
        /\ Increasing(e)
    BY <1>1, <2>1 DEF IsExtra
  <2> DEFINE s == occurrences[q]
  <2>3. s \in Seq(S) /\ Increasing(s)
    BY <1>5
  <2> HIDE DEF s
  <2>4. /\ Range(s \o e) = Range(s) \union Range(e)
        /\ (\A x \in Range(s), y \in Range(e) : x < y) => Increasing(s \o e)
    BY <2>1, <2>2, <2>3, Concatenated
  <2>5. ASSUME NEW x \in Range(s), NEW y \in Range(e) PROVE x < y
    <3>0. x \in Nat
      <4>1. PICK i \in DOMAIN s : x = s[i]
        BY DEF Range
      <4>2. x \in S
        BY <2>3, <4>1, ElementOfSeq, LenProperties
      <4> QED BY <1>1, <4>2
    <3>1. q[1] = Newest \/ q[2] = Newest
      BY <1>7, <2>2
    <3>2. PICK m : IsNew(m) /\ IF q[2] = Newest THEN x < m ELSE x <= m
      BY <1>4, <3>1 DEF s
    <3>3. m \in Nat /\ m < left /\ (before >= 0 => m <= before) /\ x <= m
      BY <1>3, <3>0, <3>2
    <3>4. CASE before >= 0 /\ y2 = q /\ y = before
      <4>1. x < m
        BY <1>7, <3>2, <3>4
      <4> QED BY <1>1, <3>0, <3>3, <3>4, <4>1
    <3>5. CASE after >= 0 /\ z2 = q /\ y = left
      BY <1>1, <3>0, <3>3, <3>5
    <3> QED BY <2>2, <3>4, <3>5
  <2>6. Increasing(s \o e)
    BY <2>4, <2>5
  <2>7. ASSUME NEW p \in S, HasPair(token', next', q, p) PROVE p \in Range(s \o e)
    <3>1. HasPair(token, next, q, p) => p \in Range(s)
      BY <1>5 DEF s
    <3> QED BY <1>3, <2>2, <2>4, <2>7, <3>1
  <2>8. ASSUME Range(e) = {} PROVE s \o e = s
    <3>1. e = <<>>
      <4>1. Len(e) \in Nat /\ DOMAIN e = 1 .. Len(e)
        BY <2>1, LenProperties
      <4>2. ASSUME Len(e) # 0 PROVE FALSE
        <5>1. 1 \in DOMAIN e
          BY <4>1, <4>2
        <5>2. e[1] \in Range(e)
          BY <5>1 DEF Range
        <5> QED BY <2>8, <5>2
      <4> QED BY <2>1, <4>2, EmptySeq
    <3> QED BY <2>3, <3>1, ConcatEmptySeq
  <2>9. ASSUME q[1] # Newest, q[2] # Newest PROVE s \o e = s
    <3>1. Range(e) = {}
      BY <1>7, <2>2, <2>9
    <3> QED BY <2>8, <3>1
  <2>10. ASSUME NEW k \in 1 .. 2, q[k] > Newest PROVE s \o e = <<>>
    <3>1. q[1] \in Nat /\ q[2] \in Nat /\ (q[1] > Newest \/ q[2] > Newest)
      <4>1. k = 1 \/ k = 2
        OBVIOUS
      <4> QED BY <1>5, <2>10, <4>1
    <3>2. ASSUME NEW x \in Range(e) PROVE FALSE
      <4>1. CASE before >= 0 /\ y2 = q
        <5>1. q[1] <= Newest /\ q[2] = Newest
          BY <1>1, <1>7, <4>1
        <5> QED BY <1>1, <3>1, <5>1
      <4>2. CASE after >= 0 /\ z2 = q
        <5>1. q[2] <= Newest /\ q[1] = Newest
          BY <1>1, <1>7, <4>2
        <5> QED BY <1>1, <3>1, <5>1
      <4> QED BY <2>2, <4>1, <4>2
    <3>3. s = <<>>
      BY <1>5, <2>10 DEF s
    <3> QED BY <2>8, <3>2, <3>3
  <2> QED BY <2>1, <2>2, <2>4, <2>6, <2>7, <2>9, <2>10 DEF s
<1>9. Noted'
  BY <1>2, <1>8 DEF Noted, S
<1>10. occurrences'[selected] = occurrences[selected]
  <2>2. selected[1] # Newest /\ selected[2] # Newest
    <3>1. selected[1] \in Nat /\ selected[2] \in Nat
      BY <1>5, <1>13
    <3> QED BY <1>1, <1>4, <3>1
  <2> QED BY <1>8, <1>13, <2>2
<1>11. /\ \A p \in S : HasPair(token', next', selected, p) =>
            \E k \in DOMAIN occurrences[selected] : k >= cursor + 1 /\ occurrences[selected][k] = p
       /\ \A m : IsNew(m)' =>
            \A k \in DOMAIN occurrences[selected] : k >= cursor + 1 => m < occurrences[selected][k]
  <2> DEFINE s == occurrences[selected]
  <2>1. s \in Seq(S) /\ Increasing(s)
    BY <1>5, <1>13
  <2>2. cursor \in Nat /\ cursor \in DOMAIN s /\ left = s[cursor]
    BY <1>2, <1>13
  <2>3. /\ \A p \in S : HasPair(token, next, selected, p) => \E k \in DOMAIN s : k >= cursor /\ s[k] = p
        /\ \A m : IsNew(m) => \A k \in DOMAIN s : k >= cursor => m < s[k]
    BY <1>4
  <2> HIDE DEF s
  <2>4. \A k \in DOMAIN s : k \in Nat
    BY <2>1, LenProperties
  <2>5. ASSUME NEW p \in S, HasPair(token', next', selected, p)
        PROVE  \E k \in DOMAIN s : k >= cursor + 1 /\ s[k] = p
    <3>1. HasPair(token, next, selected, p) /\ p # left
      <4>1. selected[1] # Newest /\ selected[2] # Newest
        <5>1. selected[1] \in Nat /\ selected[2] \in Nat
          BY <1>5, <1>13
        <5> QED BY <1>1, <1>4, <5>1
      <4> QED BY <1>3, <1>7, <2>5, <4>1
    <3>2. PICK k \in DOMAIN s : k >= cursor /\ s[k] = p
      BY <2>3, <3>1
    <3>3. k # cursor
      BY <2>2, <3>1, <3>2
    <3> QED BY <2>2, <2>4, <3>2, <3>3
  <2>6. ASSUME NEW m, IsNew(m)', NEW k \in DOMAIN s, k >= cursor + 1 PROVE m < s[k]
    <3>1. k > cursor /\ k >= cursor
      BY <2>2, <2>4, <2>6
    <3>2. left < s[k]
      BY <2>1, <2>2, <3>1 DEF Increasing
    <3> QED BY <1>3, <2>3, <2>6, <3>1, <3>2
  <2> QED BY <2>5, <2>6 DEF s
<1>12. ASSUME NEW q \in Pair, q[1] = Newest \/ q[2] = Newest, NEW x \in Range(occurrences'[q])
       PROVE  \E m : IsNew(m)' /\ IF q[2] = Newest THEN x < m ELSE x <= m
  <2>1. CASE x \in Range(occurrences[q])
    BY <1>3, <1>4, <1>12, <2>1
  <2>2. CASE before >= 0 /\ y2 = q /\ x = before
    <3>1. IsNew(left)' /\ x < left
      BY <1>1, <1>3, <2>2
    <3> QED BY <1>7, <2>2, <3>1
  <2>3. CASE after >= 0 /\ z2 = q /\ x = left
    <3>1. IsNew(left)' /\ x <= left
      BY <1>1, <1>3, <2>3
    <3>2. q[2] # Newest
      <4> SUFFICES ASSUME token[after] = Newest PROVE FALSE
        BY <1>7, <2>3
      <4>1. IsNew(after)
        <5>1. next[after] # Consumed
          <6>1. TrainerList /\ Links(Size, next)
            BY <1>2 DEF TrainerInv, TrainerList, Training
          <6>2. next[left] \in 0 .. Size - 1 /\ next[next[left]] = after
            BY <1>1, AroundTyped DEF after, S
          <6> QED BY <2>3, <6>1, <6>2 DEF Links
        <5> QED BY <1>1, <2>3, <5>1 DEF IsNew, S
      <4> QED BY <1>1, <1>3, <2>3, <4>1
    <3> QED BY <3>1, <3>2
  <2> QED BY <1>8, <2>1, <2>2, <2>3
<1>14. UnderWay'
  BY <1>2, <1>4, <1>10, <1>11, <1>12 DEF UnderWay, S
<1> QED BY <1>9, <1>14 DEF NotedInv

LEMMA NotedStep ==
  ASSUME ArticlesInv, TrainerInv, NotedInv, [Next]_vars
  PROVE  NotedInv'
<1>1. CASE CountPairs
  BY <1>1, NotedAtFirst
<1>2. CASE DropOutdated
  BY <1>2, NotedWhenDropped
<1>3. CASE SelectPair
  BY <1>3, NotedWhenSelected
<1>4. CASE MergeOccurrence
  <2>1. OccurrenceTaken(occurrences[selected][cursor])
    BY <1>4, TakeOccurrence
  <2>2. \/ PairGone(occurrences[selected][cursor])
        \/ PairMerged(occurrences[selected][cursor])
    BY <2>1 DEF OccurrenceTaken
  <2> QED BY <2>1, <2>2, NotedWhenGone, NotedWhenMerged
<1>5. CASE FinishMerge
  BY <1>5, NotedWhenFinished
<1>6. CASE UNCHANGED vars
  <2>1. /\ UNCHANGED <<pc, articles, file, occurrences, selected, cursor, token, next>>
        /\ Size' = Size /\ Newest' = Newest
    BY <1>6 DEF vars, encodingVars, trainerVars, listVars, Size, Newest
  <2>2. \A m : IsNew(m)' <=> IsNew(m)
    BY <2>1 DEF IsNew
  <2> QED BY <2>1, <2>2 DEF NotedInv, Noted, UnderWay
<1>7. ASSUME pc' \notin {"select", "merge"} PROVE NotedInv'
  BY <1>7 DEF NotedInv, Noted, UnderWay
<1>8. CASE StartTraining
  BY <1>7, <1>8 DEF StartTraining
<1>9. CASE NoPairLeft \/ GivenFile \/ Parsed
  BY <1>7, <1>9 DEF NoPairLeft, GivenFile, Parsed
<1>10. CASE Parse
  <2>1. pc' \in {"parse", "rejected"}
    BY <1>10 DEF Parse, ParseMerge
  <2> QED BY <1>7, <2>1
<1>11. CASE \E bytes \in OtherTexts \union Range(articles) : EncodeText(bytes)
  <2>1. pc' = "encode"
    BY <1>11 DEF EncodeText, Encode
  <2> QED BY <1>7, <2>1
<1>12. CASE EncodeStep
  <2>1. pc' \in {"encode", "encoded"}
    BY <1>12 DEF EncodeStep, SkipStale, Merge, Collect
  <2> QED BY <1>7, <2>1
<1>13. CASE Generate
  <2>1. pc' \in {"generate", "generated", "failed"}
    BY <1>13 DEF Generate, StartGeneration, GenerateToken, StepFails, StepsExhausted
  <2> QED BY <1>7, <2>1
<1> QED
  BY <1>1, <1>2, <1>3, <1>4, <1>5, <1>6, <1>8, <1>9, <1>10, <1>11, <1>12, <1>13 DEF Next

LEMMA NotedSafe == Spec => []NotedInv
<1>1. Init => NotedInv
  BY DEF Init, NotedInv, Noted, UnderWay
<1>2. ArticlesInv /\ TrainerInv /\ NotedInv /\ [Next]_vars => NotedInv'
  BY NotedStep
<1> QED BY <1>1, <1>2, ArticlesTyped, TrainerSafe, PTL DEF Spec

-----------------------------------------------------------------------------
(* What the articles read as. *)

\* Each article reads as what the merges so far make of it, up to the merge under way.
ReadsAs(i, u) ==
  /\ IsChain(u, file, articles[i])
  /\ pc # "merge" => ReadFrom(token, next, Starts[i]) = u[Len(file)]
  /\ pc = "merge" =>
       JoinAll(ReadFrom(token, next, Starts[i]), selected, Newest) =
         JoinAll(u[Len(file)], selected, Newest)

EndsAs(i, u) == IsChain(u, file, articles[i]) /\ trained[i] = u[Len(file)]

\* The model file is what was learned, and what is parsed of it is the model.
Learned ==
  /\ pc \in {"start"} \union Training => trained = <<>> /\ merges = <<>>
  /\ pc \in Training => \A i \in DOMAIN articles : \E u : ReadsAs(i, u)
  /\ \A i \in DOMAIN trained : i \in DOMAIN articles /\ \E u : EndsAs(i, u)
  /\ pc = "parse" =>
       /\ file \in Seq(Nat \X Nat) /\ Len(file) = MergeCount
       /\ Len(merges) \in 0 .. MergeCount /\ merges = SubSeq(file, 1, Len(merges))
  /\ pc \in {"ready"} \union Encoding => merges = file

LEMMA ReadsAtFirst ==
  ASSUME TrainerInv, Learned, StartTraining
  PROVE  Learned'
<1> USE TextsAssumption
<1> DEFINE texts == articles'
           bytes == FlattenSeq(texts)
           lasts == LastPositions(texts)
           n == Len(bytes)
           N == Len(texts)
           L(j) == EndOf(texts, j)
<1>1. /\ pc = "start" /\ pc' = "count" /\ texts \in Corpora
      /\ token' = FreshToken(bytes) /\ next' = FreshNext(bytes, lasts)
      /\ UNCHANGED <<file, merges, trained>>
  BY DEF StartTraining, modelVars
<1>2. file' = <<>> /\ Len(file') = 0 /\ trained' = <<>> /\ merges' = <<>>
  BY <1>1 DEF TrainerInv, Learned
<1>3. texts \in Seq(Seq(Byte) \ {<<>>})
  BY <1>1
<1> HIDE DEF texts
<1>4. LaidOut(texts)
  BY <1>3, ArticlesInPlace
<1>5. bytes \in Seq(Byte) /\ n \in Nat /\ N \in Nat /\ DOMAIN texts = 1 .. N
  <2>1. Seq(Byte) \ {<<>>} \subseteq Seq(Byte)
    OBVIOUS
  <2>2. texts \in Seq(Seq(Byte))
    BY <1>3, <2>1, SeqMonotonic
  <2>3. bytes \in Seq(Byte)
    BY <2>2, FlattenType
  <2> HIDE DEF bytes
  <2> QED BY <2>2, <2>3, LenProperties
<1>6. /\ lasts = {L(i) - 1 : i \in 1 .. N}
      /\ L(0) = 0 /\ L(N) = n
      /\ \A j \in 0 .. N : L(j) \in Nat
      /\ \A i, j \in 0 .. N : i < j => L(i) < L(j)
      /\ \A i \in 1 .. N : SubSeq(bytes, L(i - 1) + 1, L(i)) = texts[i]
  <2>1. lasts = {L(i) - 1 : i \in 1 .. N}
    BY DEF LastPositions, EndOf
  <2> HIDE DEF lasts
  <2> QED BY <1>4, <2>1 DEF LaidOut
<1>7. Starts' = [i \in 1 .. N |-> L(i - 1)]
  BY DEF Starts, EndOf, texts
<1>11. ASSUME NEW j \in 0 .. N, NEW k \in 0 .. N, L(j) < L(k) PROVE j < k
  <2>1. CASE j = k
    BY <1>6, <1>11, <2>1
  <2>2. CASE k < j
    <3>1. L(k) < L(j) /\ L(k) \in Nat /\ L(j) \in Nat
      BY <1>6, <2>2
    <3> HIDE DEF L
    <3> QED BY <1>11, <3>1
  <2> QED BY <1>5, <2>1, <2>2
<1> HIDE DEF bytes, lasts, N, L, n
<1>8. ASSUME NEW i \in 1 .. N PROVE ReadFrom(token', next', Starts'[i]) = texts[i]
  <2> DEFINE first == L(i - 1)
             last == L(i) - 1
  <2>1. i - 1 \in 0 .. N /\ i \in 0 .. N /\ N \in 0 .. N /\ i - 1 < i
    BY <1>5
  <2>2. /\ first \in Nat /\ L(i) \in Nat /\ first < L(i) /\ L(i) <= n
        /\ last \in lasts /\ last + 1 = L(i)
    <3>1. first \in Nat /\ L(i) \in Nat /\ first < L(i)
      BY <1>6, <2>1
    <3>2. i = N \/ i < N
      BY <1>5
    <3>3. L(i) <= n
      BY <1>5, <1>6, <2>1, <3>1, <3>2
    <3> QED BY <1>6, <3>1, <3>3
  <2>3. n - 1 \in lasts
    <3>1. N \in 1 .. N
      BY <1>5
    <3> QED BY <1>6, <3>1
  <2>4. ASSUME NEW p \in first .. last - 1, p \in lasts PROVE FALSE
    <3>1. PICK j \in 1 .. N : p = L(j) - 1
      BY <1>6, <2>4
    <3>2. j \in 0 .. N /\ L(j) \in Nat
      BY <1>5, <1>6, <3>1
    <3>3. L(i - 1) < L(j) /\ L(j) < L(i)
      BY <2>2, <3>1, <3>2
    <3>4. i - 1 < j /\ j < i
      BY <1>11, <2>1, <3>2, <3>3
    <3> QED BY <3>4
  <2> HIDE DEF first, last
  <2>5. FreshPart(Byte, bytes, lasts, first, last)
    <3>1. first \in 0 .. last /\ last \in 0 .. n - 1
      BY <1>5, <2>2 DEF first, last
    <3> QED BY <1>5, <2>2, <2>3, <2>4, <3>1 DEF FreshPart, n
  <2>6. ReadFrom(FreshToken(bytes), FreshNext(bytes, lasts), first) = SubSeq(bytes, first + 1, last + 1)
    BY ONLY <2>5, FreshReads
  <2>7. Starts'[i] = first
    BY <1>7 DEF first
  <2>8. SubSeq(bytes, first + 1, last + 1) = texts[i]
    BY <1>6, <2>2 DEF first
  <2> QED BY <1>1, <2>6, <2>7, <2>8
<1>9. ASSUME NEW i \in 1 .. N PROVE \E u : ReadsAs(i, u)'
  <2>1. PICK u : u[0] = texts[i]
    <3>1. [k \in {0} |-> texts[i]][0] = texts[i]
      OBVIOUS
    <3> QED BY <3>1
  <2>2. 1 .. Len(file') = {}
    BY <1>2
  <2>3. IsChain(u, file', texts[i])
    BY <2>1, <2>2 DEF IsChain
  <2>4. ReadFrom(token', next', Starts'[i]) = u[Len(file')]
    BY <1>2, <1>8, <2>1
  <2>5. ReadsAs(i, u)'
    <3>1. pc' # "merge"
      BY <1>1
    <3>2. IsChain(u, file', articles'[i])
      BY <2>3 DEF texts
    <3>3. ReadFrom(token', next', Starts'[i]) = u[Len(file')]
      BY <2>4
    <3> QED BY <3>1, <3>2, <3>3 DEF ReadsAs
  <2> QED BY <2>5
<1>10. DOMAIN articles' = 1 .. N
  BY <1>5 DEF texts
<1> QED BY <1>1, <1>2, <1>9, <1>10 DEF Learned, Training, Encoding

\* A step of the trainer that leaves the articles to read as they did.
ReadsAlike ==
  /\ pc' \in Training /\ pc \in Training
  /\ UNCHANGED <<merges, trained, articles, file>>
  /\ \A i \in DOMAIN articles : \A u : ReadsAs(i, u) => ReadsAs(i, u)'

LEMMA StillLearned ==
  ASSUME Learned, ReadsAlike
  PROVE  Learned'
<1>1. /\ pc \in Training /\ pc' \in Training /\ trained' = <<>> /\ merges' = <<>> /\ articles' = articles
  BY DEF ReadsAlike, Learned
<1>2. \A i \in DOMAIN articles : \E u : ReadsAs(i, u)'
  BY <1>1 DEF ReadsAlike, Learned
<1> QED BY <1>1, <1>2 DEF Learned, Training, Encoding

LEMMA ReadsWhenIdle ==
  ASSUME CountPairs \/ DropOutdated \/ SelectPair
  PROVE  ReadsAlike
<1>1. /\ pc \in Training /\ pc # "merge" /\ pc' \in Training
      /\ UNCHANGED <<merges, trained, articles, file, token, next>>
  BY DEF CountPairs, DropOutdated, SelectPair, encodingVars, modelVars, listVars, Training
<1>2. Starts' = Starts
  BY <1>1 DEF Starts
<1>3. ASSUME NEW i, NEW u, ReadsAs(i, u) PROVE ReadsAs(i, u)'
  <2>1. IsChain(u, file', articles'[i])
    BY <1>1, <1>3 DEF ReadsAs
  <2>2. ReadFrom(token', next', Starts'[i]) = u[Len(file')]
    BY <1>1, <1>2, <1>3 DEF ReadsAs
  <2> QED BY <2>1, <2>2 DEF ReadsAs
<1> QED BY <1>1, <1>3 DEF ReadsAlike

\* Joining all of the pair under way gives what it did before the occurrence was merged.
LEMMA ReadsWhenMerging ==
  ASSUME ArticlesInv, TrainerInv, TrainerInv', NotedInv, NEW left, OccurrenceTaken(left),
         UNCHANGED merges
  PROVE  ReadsAlike
<1>1. /\ pc = "merge" /\ pc' = "merge" /\ left \in 0 .. Size - 1
      /\ cursor \in DOMAIN occurrences[selected] /\ left = occurrences[selected][cursor]
      /\ UNCHANGED <<trained, articles, file, selected>>
      /\ Size' = Size /\ Newest' = Newest /\ Starts' = Starts
  BY DEF OccurrenceTaken, Size, Newest, Starts
<1> DEFINE new == Newest
           n == Size
           S == 0 .. Newest
           pair == selected
<1>2. /\ token \in [0 .. n - 1 -> S] /\ Links(n, next)
      /\ selected \in Pair /\ cursor \in Nat \ {0}
      /\ occurrences[selected] \in Seq(0 .. n - 1) /\ Increasing(occurrences[selected])
      /\ new \in Nat /\ Token \subseteq Nat /\ n \in Nat
  <2>1. TrainerList /\ pc \in Training
    BY <1>1 DEF TrainerInv, Training
  <2>2. selected \in Pair /\ cursor \in Nat \ {0} /\ occurrences \in [Pair -> Seq(0 .. n - 1)]
    BY <1>1 DEF TrainerInv, Counted
  <2>3. Increasing(occurrences[selected])
    BY <1>1, <2>2 DEF NotedInv, Noted
  <2> QED BY <2>1, <2>2, <2>3, ListNumbers DEF TrainerList
<1>3. ASSUME NEW i \in DOMAIN articles
      PROVE  JoinAll(ReadFrom(token', next', Starts[i]), pair, new) =
               JoinAll(ReadFrom(token, next, Starts[i]), pair, new)
  <2>1. CASE PairGone(left)
    BY <2>1 DEF PairGone, listVars
  <2>2. CASE PairMerged(left)
    <3>1. /\ token' = MergedTokens(token, left, new) /\ next' = MergedLinks(next, left)
          /\ HasPair(token, next, pair, left)
      BY <2>2 DEF PairMerged, MergeAt
    <3>2. \A q \in 0 .. left - 1 : ~HasPair(token, next, pair, q)
      <4> SUFFICES ASSUME NEW q \in 0 .. left - 1, HasPair(token, next, pair, q) PROVE FALSE
        OBVIOUS
      <4>1. q \in 0 .. n - 1 /\ q < left
        BY <1>1, <1>2
      <4>2. PICK k \in DOMAIN occurrences[selected] : k >= cursor /\ occurrences[selected][k] = q
        BY <1>1, <4>1 DEF NotedInv, UnderWay
      <4>3. k \in Nat
        <5> DEFINE s == occurrences[selected]
                   T == 0 .. n - 1
        <5>1. s \in Seq(T) /\ k \in DOMAIN s
          BY <1>2
        <5> HIDE DEF s, T
        <5> QED BY <5>1, LenProperties
      <4>4. k = cursor \/ cursor < k
        BY <1>2, <4>2, <4>3
      <4>5. k = cursor => q = left
        BY <1>1, <4>2
      <4>6. cursor < k => left < q
        BY <1>1, <1>2, <4>2 DEF Increasing
      <4> QED BY <1>1, <4>1, <4>4, <4>5, <4>6
    <3>3. new \in S /\ token[left] # new /\ token[next[left]] # new
      <4>1. pair[1] = token[left] /\ pair[2] = token[next[left]]
        <5>1. Found(n, token, next, pair, left)
          BY <1>1, <1>2, <3>1 DEF Found
        <5> QED BY <5>1, PairFound
      <4>2. pair[1] < new /\ pair[2] < new
        BY <1>1 DEF NotedInv, UnderWay
      <4>3. pair[1] \in Nat /\ pair[2] \in Nat
        BY <1>2, PairNumbers
      <4>4. pair[1] # new /\ pair[2] # new
        BY <1>2, <4>2, <4>3
      <4> QED BY <1>2, <4>1, <4>4
    <3>4. LeftmostMerge(S, n, token, next, left, pair, new)
      BY <1>1, <1>2, <3>1, <3>2, <3>3 DEF LeftmostMerge
    <3>5. Starts[i] \in 0 .. n - 1 /\ next'[Starts[i]] # Consumed
      <4>1. StartsKept'
        BY <1>1 DEF TrainerInv, TrainerList, Training
      <4> QED BY <1>1, <4>1 DEF StartsKept
    <3> DEFINE p == Starts[i]
    <3>6. p \in 0 .. n - 1 /\ next'[p] # Consumed
      BY <3>5
    <3> HIDE DEF p, n, S, new, pair
    <3>7. JoinAll(ReadFrom(token', next', p), pair, new) = JoinAll(ReadFrom(token, next, p), pair, new)
      BY ONLY <3>1, <3>4, <3>6, JoinMerged
    <3> QED BY <3>7 DEF p
  <2> QED BY <2>1, <2>2 DEF OccurrenceTaken
<1>4. ASSUME NEW i \in DOMAIN articles, NEW u, ReadsAs(i, u) PROVE ReadsAs(i, u)'
  <2>1. IsChain(u, file', articles'[i])
    BY <1>1, <1>4 DEF ReadsAs
  <2>2. JoinAll(ReadFrom(token, next, Starts[i]), selected, Newest) =
          JoinAll(u[Len(file)], selected, Newest)
    BY <1>1, <1>4 DEF ReadsAs
  <2>3. JoinAll(ReadFrom(token', next', Starts'[i]), selected', Newest') =
          JoinAll(u[Len(file')], selected', Newest')
    BY <1>1, <1>3, <2>2
  <2> QED BY <1>1, <2>1, <2>3 DEF ReadsAs
<1> QED BY <1>1, <1>4 DEF ReadsAlike, Training

\* When no occurrence is left each article reads as the merge of all of them.
LEMMA ReadsWhenFinished ==
  ASSUME ArticlesInv, TrainerInv, NotedInv, Learned, FinishMerge
  PROVE  Learned'
<1> DEFINE new == Newest
           n == Size
           S == 0 .. Newest
           r == Len(file)
<1>1. /\ pc = "merge" /\ file' = Append(file, selected)
      /\ cursor > Len(occurrences[selected])
      /\ UNCHANGED <<listVars, articles, merges>>
      /\ token' = token /\ next' = next /\ Starts' = Starts
  BY DEF FinishMerge, modelVars, listVars, Starts
<1>2. /\ token \in [0 .. n - 1 -> S] /\ Links(n, next) /\ StartsKept
      /\ selected \in Pair /\ cursor \in Nat \ {0}
      /\ occurrences[selected] \in Seq(0 .. n - 1)
      /\ new \in Nat /\ new \in S /\ Token \subseteq Nat
      /\ file \in Seq(Pair) /\ r \in Nat /\ r < MergeCount
  <2>1. TrainerList /\ pc \in Training
    BY <1>1 DEF TrainerInv, Training
  <2>2. selected \in Pair /\ cursor \in Nat \ {0} /\ occurrences \in [Pair -> Seq(0 .. n - 1)]
    BY <1>1 DEF TrainerInv, Counted
  <2>3. new \in Nat /\ Token \subseteq Nat /\ r \in Nat
    BY <2>1, ListNumbers
  <2> QED BY <2>1, <2>2, <2>3 DEF TrainerList
<1>3. \A q \in 0 .. n - 1 : ~HasPair(token, next, selected, q)
  <2> SUFFICES ASSUME NEW q \in 0 .. n - 1, HasPair(token, next, selected, q) PROVE FALSE
    OBVIOUS
  <2>1. PICK k \in DOMAIN occurrences[selected] : k >= cursor
    BY <1>1 DEF NotedInv, UnderWay
  <2> DEFINE s == occurrences[selected]
             T == 0 .. n - 1
  <2>2. s \in Seq(T) /\ k \in DOMAIN s /\ cursor > Len(s)
    BY <1>1, <1>2, <2>1
  <2> HIDE DEF s, T
  <2>3. k \in 1 .. Len(s) /\ Len(s) \in Nat
    BY <2>2, LenProperties
  <2> QED BY <1>2, <2>1, <2>2, <2>3
<1>4. /\ file' \in Seq(Pair) /\ Len(file') = r + 1 /\ file'[r + 1] = selected
      /\ \A k \in 1 .. r : file'[k] = file[k]
  BY <1>1, <1>2, AppendProperties
<1>5. ASSUME NEW i \in DOMAIN articles
      PROVE  \E w : /\ IsChain(w, file', articles[i])
                    /\ ReadFrom(token, next, Starts[i]) = w[r + 1]
  <2>1. PICK u : ReadsAs(i, u)
    BY <1>1 DEF Learned, Training
  <2> DEFINE x == ReadFrom(token, next, Starts[i])
             w == [k \in 0 .. r + 1 |-> IF k = r + 1 THEN x ELSE u[k]]
  <2>2. JoinAll(x, selected, new) = JoinAll(u[r], selected, new) /\ IsChain(u, file, articles[i])
    BY <1>1, <2>1 DEF ReadsAs
  <2>3. JoinAll(x, selected, new) = x
    <3>1. Starts[i] \in 0 .. n - 1 /\ next[Starts[i]] # Consumed
      BY <1>2 DEF StartsKept
    <3> DEFINE p == Starts[i]
               pair == selected
    <3>2. NoOccurrence(S, n, token, next, pair, new, p)
      BY <1>2, <1>3, <3>1 DEF NoOccurrence
    <3> HIDE DEF S, n, p, pair, new
    <3>3. JoinAll(ReadFrom(token, next, p), pair, new) = ReadFrom(token, next, p)
      BY ONLY <3>2, JoinNone
    <3> QED BY <3>3 DEF p, pair
  <2> HIDE DEF x
  <2>4. /\ w[0] = u[0] /\ w[r + 1] = x
        /\ \A k \in 0 .. r : w[k] = u[k]
    BY <1>2
  <2> HIDE DEF w
  <2>5. ASSUME NEW k \in 1 .. r + 1
        PROVE  w[k] = JoinAll(w[k - 1], file'[k], ByteCount + k - 1)
    <3>1. CASE k = r + 1
      <4>1. k - 1 = r /\ r \in 0 .. r
        BY <1>2, <3>1
      <4>2. w[k - 1] = u[r] /\ w[k] = x /\ file'[k] = selected
        BY <1>4, <2>4, <3>1, <4>1
      <4>3. new = ByteCount + k - 1
        BY <1>2, <3>1, SizesAssumption DEF Newest
      <4> HIDE DEF new
      <4> QED BY <2>2, <2>3, <4>2, <4>3
    <3>2. CASE k # r + 1
      <4>1. k \in 1 .. r /\ k - 1 \in 0 .. r /\ k \in 0 .. r
        BY <1>2, <3>2
      <4>2. w[k] = u[k] /\ w[k - 1] = u[k - 1] /\ file'[k] = file[k]
        BY <1>4, <2>4, <4>1
      <4> QED BY <2>2, <4>1, <4>2 DEF IsChain
    <3> QED BY <3>1, <3>2
  <2>6. IsChain(w, file', articles[i])
    BY <1>4, <2>2, <2>4, <2>5 DEF IsChain
  <2> QED BY <2>4, <2>6 DEF x
<1>6. CASE pc' = "select"
  <2>1. ASSUME NEW i \in DOMAIN articles' PROVE \E u : ReadsAs(i, u)'
    <3>1. PICK w : /\ IsChain(w, file', articles[i])
                   /\ ReadFrom(token, next, Starts[i]) = w[r + 1]
      BY <1>1, <1>5, <2>1
    <3>2. IsChain(w, file', articles'[i])
      BY <1>1, <3>1
    <3>3. ReadFrom(token', next', Starts'[i]) = w[Len(file')]
      BY <1>1, <1>4, <3>1
    <3>4. ReadsAs(i, w)'
      BY <1>6, <3>2, <3>3 DEF ReadsAs
    <3> QED BY <3>4
  <2>2. trained' = <<>> /\ merges' = <<>>
    BY <1>1, <1>6 DEF FinishMerge, Learned, Training
  <2> QED BY <1>6, <2>1, <2>2 DEF Learned, Training, Encoding
<1>7. CASE pc' # "select"
  <2>1. /\ pc' = "parse" /\ Len(file') = MergeCount
        /\ trained' = [i \in DOMAIN articles |-> TokensFrom(Starts[i])]
    BY <1>7 DEF FinishMerge
  <2>2. merges' = <<>> /\ Len(merges') = 0
    BY <1>1 DEF Learned, Training
  <2>3. ASSUME NEW i \in DOMAIN trained' PROVE i \in DOMAIN articles' /\ \E u : EndsAs(i, u)'
    <3>1. i \in DOMAIN articles /\ trained'[i] = ReadFrom(token, next, Starts[i])
      BY <2>1, <2>3, TokensAreRead
    <3>2. PICK w : /\ IsChain(w, file', articles[i])
                   /\ ReadFrom(token, next, Starts[i]) = w[r + 1]
      BY <1>5, <3>1
    <3>3. IsChain(w, file', articles'[i]) /\ trained'[i] = w[Len(file')]
      BY <1>1, <1>4, <3>1, <3>2
    <3>4. EndsAs(i, w)'
      BY <3>3 DEF EndsAs
    <3> QED BY <1>1, <3>1, <3>4
  <2>4. file' \in Seq(Nat \X Nat)
    <3>1. Pair \subseteq Nat \X Nat
      BY <1>2 DEF Pair
    <3> QED BY <1>4, <3>1, SeqMonotonic
  <2>5. merges' = SubSeq(file', 1, Len(merges'))
    <3> DEFINE one == 1
               none == 0
               S2 == Nat \X Nat
    <3>1. one \in Int /\ none \in Int /\ none < one /\ file' \in Seq(S2)
      BY <2>4
    <3> HIDE DEF one, none, S2
    <3>2. SubSeq(file', one, none) = <<>>
      BY <3>1, SubSeqEmpty
    <3> QED BY <2>2, <3>2 DEF one, none
  <2>6. MergeCount \in Nat
    BY SizesAssumption
  <2> QED BY <2>1, <2>2, <2>3, <2>4, <2>5, <2>6 DEF Learned, Training, Encoding
<1> QED BY <1>6, <1>7

\* A file from elsewhere has been trained on nothing.
LEMMA LearnedElsewhere ==
  ASSUME Learned, GivenFile
  PROVE  Learned'
<1>1. /\ pc' = "parse" /\ file' \in OtherFiles /\ trained' = <<>> /\ merges' = <<>>
  BY DEF GivenFile, Learned, modelVars
<1>2. file' \in Seq(Nat \X Nat) /\ Len(file') = MergeCount /\ MergeCount \in Nat
  BY <1>1, TextsAssumption, SizesAssumption
<1>3. DOMAIN trained' = {} /\ Len(merges') = 0
  BY <1>1
<1>4. merges' = SubSeq(file', 1, Len(merges'))
  <2> DEFINE one == 1
             none == 0
             S == Nat \X Nat
  <2>1. one \in Int /\ none \in Int /\ none < one /\ file' \in Seq(S)
    BY <1>2
  <2> HIDE DEF one, none, S
  <2>2. SubSeq(file', one, none) = <<>>
    BY <2>1, SubSeqEmpty
  <2> QED BY <1>1, <1>3, <2>2 DEF one, none
<1> QED BY <1>1, <1>2, <1>3, <1>4 DEF Learned, Training, Encoding

\* The parse takes the pairs of the file one after the other.
LEMMA LearnedIsParsed ==
  ASSUME Learned, Parse \/ Parsed
  PROVE  Learned'
<1>1. /\ pc = "parse" /\ UNCHANGED <<file, trained, articles>>
      /\ pc' \in {"parse", "rejected", "ready"}
      /\ \/ pc' = "parse" /\ Len(merges) < MergeCount /\ merges' = Append(merges, file[Len(merges) + 1])
         \/ pc' = "rejected"
         \/ pc' = "ready" /\ Len(merges) = MergeCount /\ merges' = merges
  BY DEF Parse, Parsed, ParseMerge, trainerVars, modelVars
<1> DEFINE r == Len(merges)
           T == Nat \X Nat
<1>2. /\ file \in Seq(T) /\ Len(file) = MergeCount
      /\ r \in 0 .. MergeCount /\ merges = SubSeq(file, 1, r) /\ MergeCount \in Nat
  BY <1>1, SizesAssumption DEF Learned
<1>3. \A i \in DOMAIN trained' : i \in DOMAIN articles' /\ \E u : EndsAs(i, u)'
  <2>1. \A i, u : EndsAs(i, u) => EndsAs(i, u)'
    BY <1>1 DEF EndsAs
  <2> QED BY <1>1, <2>1 DEF Learned
<1>4. ASSUME pc' = "parse"
      PROVE  Len(merges') \in 0 .. MergeCount /\ merges' = SubSeq(file, 1, Len(merges'))
  <2>1. merges' = Append(merges, file[r + 1]) /\ r < MergeCount
    BY <1>1, <1>4
  <2> DEFINE one == 1
             j == r + 1
  <2>2. one \in Int /\ j \in one .. Len(file) /\ j - 1 = r /\ j - 1 \in Int
    BY <1>2, <2>1
  <2> HIDE DEF one, j, T, r
  <2>3. SubSeq(file, one, j) = Append(SubSeq(file, one, j - 1), file[j])
    BY <1>2, <2>2, SubSeqRecursiveSecond DEF one
  <2>4. merges' = SubSeq(file, 1, j)
    BY <1>2, <2>1, <2>2, <2>3 DEF one, j
  <2>5. Len(merges') = j /\ j \in 0 .. MergeCount
    <3>1. j \in 1 .. Len(file)
      BY <2>2 DEF one
    <3>2. Len(SubSeq(file, 1, j)) = j
      <4>1. 1 \in 1 .. Len(file) + 1 /\ j \in 1 - 1 .. Len(file)
        BY <1>2, <3>1
      <4>2. j \in Int /\ (1 <= j => Len(SubSeq(file, 1, j)) = j - 1 + 1)
        BY <1>2, <3>1, <4>1, SubSeqProperties
      <4> QED BY <3>1, <4>2
    <3> QED BY <1>2, <2>4, <3>1, <3>2
  <2> QED BY <2>4, <2>5
<1>5. ASSUME pc' = "ready" PROVE merges' = file'
  <2>1. merges' = SubSeq(file, 1, Len(file))
    BY <1>1, <1>2, <1>5
  <2>2. SubSeq(file, 1, Len(file)) = file
    <3> HIDE DEF T
    <3> QED BY <1>2, SubSeqFull
  <2> QED BY <1>1, <2>1, <2>2
<1> QED BY <1>1, <1>2, <1>3, <1>4, <1>5 DEF Learned, Training, Encoding

\* The users of the model change neither.
LEMMA LearnedWhenUsed ==
  ASSUME Learned,
         \/ UNCHANGED vars
         \/ NoPairLeft
         \/ \E bytes \in OtherTexts \union Range(articles) : EncodeText(bytes)
         \/ EncodeStep \/ Generate
  PROVE  Learned'
<1>1. UNCHANGED <<merges, file, trained, articles>>
  BY DEF NoPairLeft, EncodeText, Encode, EncodeStep, SkipStale, Merge, Collect, Generate,
     StartGeneration, GenerateToken, StepFails, StepsExhausted, trainerVars, modelVars, vars, encodingVars
<1>2. \A i \in DOMAIN trained' : i \in DOMAIN articles' /\ \E u : EndsAs(i, u)'
  <2>1. \A i, u : EndsAs(i, u) => EndsAs(i, u)'
    BY <1>1 DEF EndsAs
  <2> QED BY <1>1, <2>1 DEF Learned
<1>3. CASE UNCHANGED vars
  <2>1. UNCHANGED <<pc, token, next, selected>> /\ Starts' = Starts
    BY <1>1, <1>3 DEF vars, encodingVars, trainerVars, listVars, Starts
  <2>2. \A i, u : ReadsAs(i, u) => ReadsAs(i, u)'
    BY <1>1, <2>1 DEF ReadsAs, Newest
  <2> QED BY <1>1, <1>2, <2>1, <2>2 DEF Learned
<1>4. CASE NoPairLeft
  <2>1. pc' = "insufficient"
    BY <1>4 DEF NoPairLeft
  <2> QED BY <1>1, <1>2, <2>1 DEF Learned, Training, Encoding
<1>5. ASSUME pc \in {"ready"} \union Encoding, pc' \notin {"start", "parse"} \union Training PROVE Learned'
  <2>1. merges' = file'
    BY <1>1, <1>5 DEF Learned
  <2> QED BY <1>1, <1>2, <1>5, <2>1 DEF Learned
<1>6. CASE \E bytes \in OtherTexts \union Range(articles) : EncodeText(bytes)
  <2>1. pc = "ready" /\ pc' = "encode"
    BY <1>6 DEF EncodeText, Encode
  <2> QED BY <1>5, <2>1 DEF Training, Encoding
<1>7. CASE EncodeStep
  <2>1. pc = "encode" /\ pc' \in {"encode", "encoded"}
    BY <1>7 DEF EncodeStep, SkipStale, Merge, Collect
  <2> QED BY <1>5, <2>1 DEF Training, Encoding
<1>8. CASE Generate
  <2>1. pc \in {"encoded", "generate"} /\ pc' \in {"generate", "generated", "failed"}
    BY <1>8 DEF Generate, StartGeneration, GenerateToken, StepFails, StepsExhausted
  <2> QED BY <1>5, <2>1 DEF Training, Encoding
<1> QED BY <1>3, <1>4, <1>6, <1>7, <1>8

LEMMA LearnedStep ==
  ASSUME ArticlesInv, TrainerInv, TrainerInv', NotedInv, Learned, [Next]_vars
  PROVE  Learned'
<1>1. CASE StartTraining
  BY <1>1, ReadsAtFirst
<1>2. CASE CountPairs \/ DropOutdated \/ SelectPair
  BY <1>2, ReadsWhenIdle, StillLearned
<1>3. CASE MergeOccurrence
  <2>1. OccurrenceTaken(occurrences[selected][cursor])
    BY <1>3, TakeOccurrence
  <2>2. UNCHANGED merges
    BY <1>3 DEF MergeOccurrence, modelVars
  <2> QED BY <2>1, <2>2, ReadsWhenMerging, StillLearned
<1>4. CASE FinishMerge
  BY <1>4, ReadsWhenFinished
<1>5. CASE GivenFile
  BY <1>5, LearnedElsewhere
<1>6. CASE Parse \/ Parsed
  BY <1>6, LearnedIsParsed
<1>7. CASE \/ UNCHANGED vars
           \/ NoPairLeft
           \/ \E bytes \in OtherTexts \union Range(articles) : EncodeText(bytes)
           \/ EncodeStep \/ Generate
  BY <1>7, LearnedWhenUsed
<1> QED BY <1>1, <1>2, <1>3, <1>4, <1>5, <1>6, <1>7 DEF Next

LEMMA LearnedSafe == Spec => []Learned
<1>1. Init => Learned
  BY DEF Init, Learned, Training, Encoding
<1>2. ArticlesInv /\ TrainerInv /\ TrainerInv' /\ NotedInv /\ Learned /\ [Next]_vars => Learned'
  BY LearnedStep
<1> QED BY <1>1, <1>2, ArticlesTyped, TrainerSafe, NotedSafe, PTL DEF Spec

\* TrainerAgrees, for every corpus and every number of merges: the trainer, which
\* merges all occurrences of one pair after the other in a list of all articles,
\* leaves each article cut as Model::encode cuts it with the queue of candidates.
THEOREM TrainerAndEncoderAgree == Spec => []TrainerAgrees
<1>1. ArticlesInv /\ IInv /\ Learned /\ EncodingIsCanonical => TrainerAgrees
  <2> SUFFICES ASSUME ArticlesInv, IInv, Learned, EncodingIsCanonical, pc = "encoded",
                      NEW i \in DOMAIN trained, articles[i] = text
               PROVE  tokens = trained[i]
    BY DEF TrainerAgrees
  <2>1. merges = file /\ tokens = Canonical(text) /\ i \in DOMAIN articles
    BY DEF Learned, Encoding, EncodingIsCanonical
  <2>2. PICK u : IsChain(u, merges, text) /\ trained[i] = u[Len(merges)]
    <3>1. PICK u : EndsAs(i, u)
      BY DEF Learned
    <3> QED BY <2>1, <3>1 DEF EndsAs
  <2>3. text \in Seq(Nat) /\ Len(merges) \in Nat
    <3>1. merges \in Seq(Nat \X Nat)
      BY DEF IInv, ModelInv
    <3>2. articles[i] \in Seq(Byte)
      BY <2>1, ElementOfSeq, LenProperties DEF ArticlesInv
    <3>3. Byte \subseteq Nat
      BY SizesAssumption DEF Byte
    <3>4. text \in Seq(Nat)
      BY <3>2, <3>3, SeqMonotonic
    <3> QED BY <3>1, <3>4, LenProperties
  <2>4. PICK v : IsChain(v, merges, text) /\ Canonical(text) = v[Len(merges)]
    BY <2>3, CanonicalIsChain DEF IsCanonical
  <2>5. Meeting(merges, u, text, v, text, 0)
    BY <2>2, <2>3, <2>4 DEF Meeting, IsChain
  <2>6. u[Len(merges)] = v[Len(merges)]
    <3>1. \A k \in 0 .. Len(merges) : u[k] = v[k]
      BY <2>5, ChainsMeet
    <3> QED BY <2>3, <3>1
  <2> QED BY <2>1, <2>2, <2>4, <2>6
<1> QED BY <1>1, ArticlesTyped, EncoderSafe, LearnedSafe, QueueIsCanonical, PTL
=============================================================================
