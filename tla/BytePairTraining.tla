-------------------------- MODULE BytePairTraining --------------------------
(***************************************************************************)
(* From articles to tokens: nicopedia_bpe_train.cpp learns the merges and  *)
(* writes the model file, nicopedia_bpe_encode.cpp encodes articles with   *)
(* it, and the app encodes a prompt and generates (BytePairEncoding).      *)
(*                                                                         *)
(* The trainer never counts twice.  It keeps the number of occurrences of  *)
(* each pair and the positions where each was seen, both corrected as      *)
(* merges change the neighbourhood, and a heap of <<count, pair>> whose    *)
(* outdated entries are recognised when they are popped.  A pair is pushed *)
(* again only after its count has fallen, so the heap is a set.            *)
(***************************************************************************)
EXTENDS BytePairEncoding, SequencesExt

CONSTANTS
  Corpora,     \* sequences of articles to train on, none of them empty
  OtherFiles,  \* model files from elsewhere: sequences of MergeCount pairs
  OtherTexts,  \* texts to encode that are not articles
  Prompts      \* the texts that generation continues

ASSUME TextsAssumption ==
  /\ Corpora \subseteq Seq(Seq(Byte) \ {<<>>})
  /\ OtherTexts \subseteq Seq(Byte)
  /\ OtherFiles \subseteq Seq(Nat \X Nat)
  /\ \A file \in OtherFiles : Len(file) = MergeCount

VARIABLES
  articles,    \* the corpus, or <<>> when the model file was given
  file,        \* the pairs of the model file, as far as they are known
  counts, occurrences,  \* by pair
  heap,        \* <<count, pair>>
  selected,    \* the pair being merged
  cursor,      \* the next of its occurrences
  changed,     \* the pairs whose counts this merge has touched
  trained      \* history: the articles' tokens when training ended

trainerVars == <<articles, file, counts, occurrences, heap, selected, cursor, changed, trained>>
vars == <<encodingVars, trainerVars>>

Pair == Token \X Token

-----------------------------------------------------------------------------
(* The trainer's list holds all articles, one after the other. *)

Starts == [i \in 1 .. Len(articles) |-> Len(FlattenSeq(SubSeq(articles, 1, i - 1)))]
LastPositions(texts) == {Len(FlattenSeq(SubSeq(texts, 1, i))) - 1 : i \in 1 .. Len(texts)}

PairAt(p) == <<token[p], token[next[p]]>>
IsPairAt(pair, p) == next[p] >= 0 /\ PairAt(p) = pair
Occurrences(pair) == {p \in DOMAIN next : IsPairAt(pair, p)}

\* The order in which positions are noted: the i-th has i - 1 before it.
InOrder(S) ==
  [i \in 1 .. Cardinality(S) |-> CHOOSE p \in S : Cardinality({q \in S : q < p}) = i - 1]

StartTraining ==
  /\ pc = "start"
  /\ pc' = "count"
  /\ articles' \in Corpora
  /\ LET bytes == FlattenSeq(articles')
         lasts == LastPositions(articles')
     IN /\ token' = FreshToken(bytes)
        /\ previous' = FreshPrevious(bytes, lasts)
        /\ next' = FreshNext(bytes, lasts)
  /\ UNCHANGED <<modelVars, text, candidates, tokens, answerVars, file, counts, occurrences,
                 heap, selected, cursor, changed, trained>>

\* Each pair is counted and its positions are noted, and the heap is filled.
CountPairs ==
  /\ pc = "count"
  /\ pc' = "select"
  /\ counts' = [pair \in Pair |-> Cardinality(Occurrences(pair))]
  /\ occurrences' = [pair \in Pair |-> InOrder(Occurrences(pair))]
  /\ heap' = {<<counts'[pair], pair>> : pair \in {q \in Pair : counts'[q] > 0}}
  /\ UNCHANGED <<modelVars, text, listVars, candidates, tokens, answerVars, articles, file,
                 selected, cursor, changed, trained>>

\* CandidateLess: the most frequent pair first, then the smaller one.
Precedes(a, b) ==
  \/ a[1] > b[1]
  \/ a[1] = b[1] /\ a[2][1] < b[2][1]
  \/ a[1] = b[1] /\ a[2][1] = b[2][1] /\ a[2][2] < b[2][2]

Foremost(entry) == \A other \in heap \ {entry} : Precedes(entry, other)
UpToDate(entry) == counts[entry[2]] = entry[1] /\ entry[1] > 0

DropOutdated ==
  /\ pc = "select"
  /\ \E entry \in heap :
       /\ Foremost(entry) /\ ~UpToDate(entry)
       /\ heap' = heap \ {entry}
  /\ UNCHANGED <<encodingVars, articles, file, counts, occurrences, selected, cursor, changed,
                 trained>>

SelectPair ==
  /\ pc = "select"
  /\ \E entry \in heap :
       /\ Foremost(entry) /\ UpToDate(entry)
       /\ heap' = heap \ {entry}
       /\ selected' = entry[2]
       /\ changed' = {entry[2]}
  /\ cursor' = 1
  /\ pc' = "merge"
  /\ UNCHANGED <<modelVars, text, listVars, candidates, tokens, answerVars, articles, file,
                 counts, occurrences, trained>>

\* TRAIN_INSUFFICIENT_PAIRS
NoPairLeft ==
  /\ pc = "select" /\ heap = {}
  /\ pc' = "insufficient"
  /\ UNCHANGED <<modelVars, text, listVars, candidates, tokens, answerVars, trainerVars>>

Times(pair, seq) == Cardinality({i \in DOMAIN seq : seq[i] = pair})

\* The pairs with the tokens before and after that a merge at `left' ends.
GoneBefore(left) ==
  IF previous[left] >= 0 THEN << <<token[previous[left]], token[left]>> >> ELSE <<>>
GoneAfter(left) ==
  LET right == next[left] IN
  IF next[right] >= 0 THEN << <<token[right], token[next[right]]>> >> ELSE <<>>
Gone(left) == GoneBefore(left) \o GoneAfter(left)

\* The pairs that the new token makes with them, each with its position.
Came(left, new) ==
  LET before == previous[left]
      after == next[next[left]]
  IN (IF before >= 0 THEN << << <<token[before], new>>, before>> >> ELSE <<>>)
       \o (IF after >= 0 THEN << << <<new, token[after]>>, left>> >> ELSE <<>>)

\* One of the noted positions: merged if the pair is still there.
MergeOccurrence ==
  /\ pc = "merge" /\ cursor <= Len(occurrences[selected])
  /\ LET left == occurrences[selected][cursor]
         new == ByteCount + Len(file)
         gone == Gone(left)
         came == Came(left, new)
     IN IF ~IsPairAt(selected, left)
        THEN UNCHANGED <<listVars, counts, occurrences, changed>>
        ELSE /\ token' = TokenAfter(left, new)
             /\ next' = NextAfter(left)
             /\ previous' = [PreviousAfter(left) EXCEPT ![next[left]] = Consumed]
             /\ counts' = [pair \in Pair |->
                  counts[pair] - Times(pair, <<selected>> \o gone)
                    + Times(pair, [i \in DOMAIN came |-> came[i][1]])]
             /\ occurrences' = [pair \in Pair |->
                  LET here == InOrder({i \in DOMAIN came : came[i][1] = pair})
                  IN occurrences[pair] \o [i \in DOMAIN here |-> came[here[i]][2]]]
             /\ changed' = changed \union Range(gone) \union {entry[1] : entry \in Range(came)}
  /\ cursor' = cursor + 1
  /\ UNCHANGED <<pc, modelVars, text, candidates, tokens, answerVars, articles, file, heap,
                 selected, trained>>

\* The pair gets its rank; the pairs it has touched are pushed with their new counts.
FinishMerge ==
  /\ pc = "merge" /\ cursor > Len(occurrences[selected])
  /\ file' = Append(file, selected)
  /\ heap' = heap \union {<<counts[pair], pair>> : pair \in {q \in changed : counts[q] > 0}}
  /\ IF Len(file') = MergeCount
     THEN /\ pc' = "parse"
          /\ trained' = [i \in DOMAIN articles |-> TokensFrom(Starts[i])]
     ELSE /\ pc' = "select"
          /\ UNCHANGED trained
  /\ UNCHANGED <<modelVars, text, listVars, candidates, tokens, answerVars, articles, counts,
                 occurrences, selected, cursor, changed>>

-----------------------------------------------------------------------------
(* The users of the model file. *)

\* A file that was not trained here, well formed or not.
GivenFile ==
  /\ pc = "start"
  /\ pc' = "parse"
  /\ file' \in OtherFiles
  /\ UNCHANGED <<modelVars, text, listVars, candidates, tokens, answerVars, articles, counts,
                 occurrences, heap, selected, cursor, changed, trained>>

Parse ==
  /\ pc = "parse" /\ Len(merges) < MergeCount
  /\ ParseMerge(file[Len(merges) + 1])
  /\ UNCHANGED <<text, listVars, candidates, tokens, answerVars, trainerVars>>

Parsed ==
  /\ pc = "parse" /\ Len(merges) = MergeCount
  /\ pc' = "ready"
  /\ UNCHANGED <<modelVars, text, listVars, candidates, tokens, answerVars, trainerVars>>

EncodeText(bytes) == Encode(bytes) /\ UNCHANGED trainerVars
EncodeStep == (SkipStale \/ Merge \/ Collect) /\ UNCHANGED trainerVars

Generate ==
  /\ \/ text \in Prompts /\ StartGeneration
     \/ \E chosen \in Token : GenerateToken(chosen)
     \/ StepFails
     \/ StepsExhausted
  /\ UNCHANGED trainerVars

Init ==
  /\ pc = "start"
  /\ merges = <<>>
  /\ expansions = [t \in 1 .. ByteCount |-> <<t - 1>>]
  /\ text = <<>>
  /\ token = <<>> /\ previous = <<>> /\ next = <<>>
  /\ candidates = {}
  /\ tokens = <<>>
  /\ context = <<>> /\ generated = <<>> /\ generatedTokens = <<>>
  /\ articles = <<>> /\ file = <<>>
  /\ counts = <<>> /\ occurrences = <<>>
  /\ heap = {} /\ selected = <<0, 0>> /\ cursor = 1 /\ changed = {}
  /\ trained = <<>>

Next ==
  \/ StartTraining \/ CountPairs \/ DropOutdated \/ SelectPair \/ NoPairLeft
  \/ MergeOccurrence \/ FinishMerge
  \/ GivenFile \/ Parse \/ Parsed
  \/ \E bytes \in OtherTexts \union Range(articles) : EncodeText(bytes)
  \/ EncodeStep \/ Generate

Spec == Init /\ [][Next]_vars

-----------------------------------------------------------------------------
(* What a merge may rely on, and what the tokens mean. *)

\* The trainer merges a pair that is the most frequent one in the articles as
\* they are tokenized then, the smallest of those, although it only corrects
\* its counts and never looks at the articles again.
GreedyChoice ==
  pc = "merge" /\ cursor = 1 =>
    \A pair \in Pair \ {selected} :
      Precedes(<<Cardinality(Occurrences(selected)), selected>>,
               <<Cardinality(Occurrences(pair)), pair>>)

\* Encoding an article with the model it was trained on gives the tokens that
\* training ended with: encoder and trainer, which find their merges in
\* different orders, cut the bytes alike.
TrainerAgrees ==
  pc = "encoded" =>
    \A i \in DOMAIN trained : articles[i] = text => tokens = trained[i]

\* The reference: rank by rank, every occurrence of the pair from left to right.
JoinAll(seq, pair, new) ==
  LET from[i \in 1 .. Len(seq) + 1] ==
        IF i > Len(seq) THEN <<>>
        ELSE IF i < Len(seq) /\ <<seq[i], seq[i + 1]>> = pair
             THEN <<new>> \o from[i + 2]
             ELSE <<seq[i]>> \o from[i + 1]
  IN from[1]

Canonical(bytes) ==
  LET upTo[r \in 0 .. Len(merges)] ==
        IF r = 0 THEN bytes ELSE JoinAll(upTo[r - 1], merges[r], ByteCount + r - 1)
  IN upTo[Len(merges)]

\* For every model file that parses, with equal pairs too, the queue with its
\* outdated entries yields what applying the merges in the order of their ranks does.
EncodingIsCanonical == pc = "encoded" => tokens = Canonical(text)

\* The positions that are left tile the text, and each token spells its tile:
\* no stale entry ever joins what is no longer adjacent, and no byte is lost.
Live(p) == p \in DOMAIN next /\ next[p] # Consumed
TileEnd(p) == IF next[p] = End THEN Len(text) ELSE next[p]
TokensSpellText ==
  pc \in {"encode", "encoded", "generate", "generated"} =>
    /\ text # <<>> => Live(0)
    /\ \A p \in DOMAIN next : Live(p) =>
         /\ TileEnd(p) > p
         /\ next[p] # End => Live(next[p])
         /\ expansions[token[p] + 1] = SubSeq(text, p + 1, TileEnd(p))

\* As long as the text is being encoded, every pair in the list that has a rank
\* is queued under it: no merge is missed by what was popped or never pushed.
NoMergeMissed ==
  pc = "encode" =>
    \A p \in DOMAIN next : next[p] >= 0 =>
      \A rank \in RankOf(PairAt(p)) : <<rank, p>> \in candidates

\* The answer is what its tokens spell, no longer than asked for, and the network
\* has always seen the end of the prompt with the answer so far.
AnswerInContext ==
  pc \in {"generate", "generated"} =>
    /\ Len(generated) <= MaximumBytes
    /\ generated = FlattenSeq([i \in DOMAIN generatedTokens |-> expansions[generatedTokens[i] + 1]])
    /\ context = ContextOf(tokens \o generatedTokens)
=============================================================================
