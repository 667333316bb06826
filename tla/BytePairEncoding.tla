-------------------------- MODULE BytePairEncoding --------------------------
(***************************************************************************)
(* The byte-pair tokenizer of nicopedia_byte_bpe.h: a model file is parsed *)
(* merge by merge, a text is encoded on a linked list of tokens with a     *)
(* priority queue of candidate merges, and generation appends tokens to    *)
(* the answer up to a limit in bytes.                                      *)
(*                                                                         *)
(* The queue is never cleaned up: an entry whose pair has changed in the   *)
(* meantime is recognised when it is popped.  The list is three arrays     *)
(* over positions; a position that has been merged into its left neighbour *)
(* stays in the arrays, marked in `next'.                                  *)
(*                                                                         *)
(* The queue is a set: a position is queued again only after its own token *)
(* or its right neighbour's has changed, and tokens only grow, so no entry *)
(* is ever in it twice.  Texts are shorter than 2^31 bytes, as the file    *)
(* sizes the callers accept make sure.                                     *)
(***************************************************************************)
EXTENDS Integers, Sequences, FiniteSets

CONSTANTS
  ByteCount,      \* 256 in the code
  MergeCount,     \* kMergeCount
  ContextTokens,  \* the tokens the network sees at once
  MaximumBytes    \* the longest answer asked for

ASSUME SizesAssumption ==
  /\ ByteCount \in Nat \ {0}
  /\ MergeCount \in Nat \ {0}
  /\ ContextTokens \in Nat \ {0}
  /\ MaximumBytes \in Nat

Byte == 0 .. ByteCount - 1
Token == 0 .. ByteCount + MergeCount - 1

End == -1        \* no neighbour
Consumed == -2   \* merged into the left neighbour

VARIABLES
  pc,
  merges,      \* merges[i + 1] is the pair of rank i
  expansions,  \* expansions[t + 1] is the bytes token t stands for
  text,        \* the bytes being encoded
  token, previous, next,
  candidates,  \* <<rank, position of the left token>>
  tokens,      \* the result of the last encode
  context,     \* the window generation feeds to the network
  generated, generatedTokens

listVars == <<token, previous, next>>
modelVars == <<merges, expansions>>
answerVars == <<context, generated, generatedTokens>>
encodingVars == <<pc, modelVars, text, listVars, candidates, tokens, answerVars>>

-----------------------------------------------------------------------------
(* The linked list. *)

Positions(n) == 0 .. n - 1

\* The list over `bytes', one token each, that is broken after every position of `lasts'.
FreshToken(bytes) == [p \in Positions(Len(bytes)) |-> bytes[p + 1]]
FreshPrevious(bytes, lasts) ==
  [p \in Positions(Len(bytes)) |-> IF p = 0 \/ p - 1 \in lasts THEN End ELSE p - 1]
FreshNext(bytes, lasts) ==
  [p \in Positions(Len(bytes)) |-> IF p \in lasts THEN End ELSE p + 1]

\* The token at `left' becomes `new' and takes the place of its right neighbour as well.
TokenAfter(left, new) == [token EXCEPT ![left] = new]
NextAfter(left) == [next EXCEPT ![left] = next[next[left]], ![next[left]] = Consumed]
PreviousUnchanged(left) == previous
PreviousAfter(left) ==
  IF next[next[left]] >= 0 THEN [previous EXCEPT ![next[next[left]]] = left] ELSE previous

\* What a walk along `next' collects from position p on, which is not consumed.
TokensFrom(p) ==
  LET walk[q \in {r \in DOMAIN next : next[r] # Consumed} \union {End}] ==
        IF q = End THEN <<>> ELSE <<token[q]>> \o walk[next[q]]
  IN walk[p]

-----------------------------------------------------------------------------
(* The model. *)

\* parseModel takes the pairs of the file in order; each may use the tokens before it.
ParseMerge(pair) ==
  LET known == 0 .. ByteCount + Len(merges) - 1 IN
  IF pair \in known \X known
  THEN /\ merges' = Append(merges, pair)
       /\ expansions' = Append(expansions, expansions[pair[1] + 1] \o expansions[pair[2] + 1])
       /\ UNCHANGED pc
  ELSE /\ pc' = "rejected"
       /\ UNCHANGED modelVars

\* The rank of a pair, if it has one: of equal pairs, the first counts.
LastRankOf(pair) ==
  {r \in 0 .. Len(merges) - 1 :
     merges[r + 1] = pair /\ \A s \in r + 1 .. Len(merges) - 1 : merges[s + 1] # pair}

RankOf(pair) ==
  {r \in 0 .. Len(merges) - 1 :
     merges[r + 1] = pair /\ \A s \in 0 .. r - 1 : merges[s + 1] # pair}

-----------------------------------------------------------------------------
(* Model::encode. *)

\* The entries that enqueue(position) adds for a list with these tokens and links.
Enqueued(position, tok, nxt) ==
  IF position < 0 \/ nxt[position] < 0
  THEN {}
  ELSE {<<rank, position>> : rank \in RankOf(<<tok[position], tok[nxt[position]]>>)}

Encode(bytes) ==
  /\ pc = "ready"
  /\ pc' = "encode"
  /\ text' = bytes
  /\ token' = FreshToken(bytes)
  /\ previous' = FreshPrevious(bytes, {Len(bytes) - 1})
  /\ next' = FreshNext(bytes, {Len(bytes) - 1})
  /\ candidates' = UNION {Enqueued(p, token', next') : p \in 0 .. Len(bytes) - 2}
  /\ UNCHANGED <<modelVars, tokens, answerVars>>

LeftmostTop(candidate) ==
  \A other \in candidates :
    \/ candidate[2] < other[2]
    \/ candidate[2] = other[2] /\ candidate[1] <= other[1]

Top(candidate) ==
  \A other \in candidates :
    \/ candidate[1] < other[1]
    \/ candidate[1] = other[1] /\ candidate[2] <= other[2]

\* The list still holds the pair the candidate was queued for.
FitsLeft(candidate) ==
  next[candidate[2]] >= 0 /\ token[candidate[2]] = merges[candidate[1] + 1][1]

Fits(candidate) ==
  LET left == candidate[2]
      right == next[left]
      pair == merges[candidate[1] + 1]
  IN /\ right >= 0
     /\ token[left] = pair[1]
     /\ token[right] = pair[2]

SkipStale ==
  /\ pc = "encode"
  /\ \E candidate \in candidates :
       /\ Top(candidate) /\ ~Fits(candidate)
       /\ candidates' = candidates \ {candidate}
  /\ UNCHANGED <<pc, modelVars, text, listVars, tokens, answerVars>>

Merge ==
  /\ pc = "encode"
  /\ \E candidate \in candidates :
       LET left == candidate[2] IN
       /\ Top(candidate) /\ Fits(candidate)
       /\ token' = TokenAfter(left, ByteCount + candidate[1])
       /\ next' = NextAfter(left)
       /\ previous' = PreviousAfter(left)
       /\ candidates' = (candidates \ {candidate})
                          \union Enqueued(previous'[left], token', next')
                          \union Enqueued(left, token', next')
  /\ UNCHANGED <<pc, modelVars, text, tokens, answerVars>>

Collect ==
  /\ pc = "encode" /\ candidates = {}
  /\ tokens' = IF text = <<>> THEN <<>> ELSE TokensFrom(0)
  /\ pc' = "encoded"
  /\ UNCHANGED <<modelVars, text, listVars, candidates, answerVars>>

-----------------------------------------------------------------------------
(* The generation loop. *)

\* buildTokenContext: the last tokens, after as many zeros as there are too few.
ContextOf(history) ==
  [i \in 1 .. ContextTokens |->
     LET j == Len(history) - ContextTokens + i IN IF j >= 1 THEN history[j] ELSE 0]

StartGeneration ==
  /\ pc = "encoded"
  /\ pc' = "generate"
  /\ context' = ContextOf(tokens)
  /\ generated' = <<>>
  /\ generatedTokens' = <<>>
  /\ UNCHANGED <<modelVars, text, listVars, candidates, tokens>>

RoomForMore(chosen) == Len(generated) < MaximumBytes
RoomFor(chosen) == Len(generated) + Len(expansions[chosen + 1]) <= MaximumBytes

\* One step: the network may pick any token; it is appended unless the answer
\* would become too long, which ends the loop.
GenerateToken(chosen) ==
  /\ pc = "generate" /\ Len(generatedTokens) < MaximumBytes
  /\ IF RoomFor(chosen)
     THEN /\ generated' = generated \o expansions[chosen + 1]
          /\ generatedTokens' = Append(generatedTokens, chosen)
          /\ context' = Append(Tail(context), chosen)
          /\ UNCHANGED pc
     ELSE /\ pc' = "generated"
          /\ UNCHANGED answerVars
  /\ UNCHANGED <<modelVars, text, listVars, candidates, tokens>>

\* The execution, the logits, the sampling or the token it yields is bad: no answer is reported.
StepFails ==
  /\ pc = "generate" /\ Len(generatedTokens) < MaximumBytes
  /\ pc' = "failed"
  /\ UNCHANGED <<modelVars, text, listVars, candidates, tokens, answerVars>>

\* The loop makes as many steps as the answer may have bytes.
StepsExhausted ==
  /\ pc = "generate" /\ Len(generatedTokens) = MaximumBytes
  /\ pc' = "generated"
  /\ UNCHANGED <<modelVars, text, listVars, candidates, tokens, answerVars>>
=============================================================================
