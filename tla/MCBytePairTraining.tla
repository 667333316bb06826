------------------------- MODULE MCBytePairTraining -------------------------
(* Two byte values and three merges, so that merges are made of merges. *)
EXTENDS BytePairTraining

CONSTANTS LongestCorpus, LongestText

Texts(longest) == UNION {[1 .. n -> Byte] : n \in 1 .. longest}

MCCorpora ==
  {<<a>> : a \in Texts(LongestCorpus)}
    \union {c \in Texts(LongestCorpus - 1) \X Texts(LongestCorpus - 1) :
              Len(c[1]) + Len(c[2]) <= LongestCorpus}
MCOtherTexts == Texts(LongestText)
\* One shorter than the context, one longer.
MCPrompts == {<<1>>, <<0, 1, 0>>}
\* All files that parse, and all whose last pair uses a token before it is made.
MCOtherFiles ==
  {f \in [1 .. MergeCount -> Token \X Token] :
     \A i \in 1 .. MergeCount - 1 : \A k \in 1 .. 2 : f[i][k] < ByteCount + i - 1}
=============================================================================
