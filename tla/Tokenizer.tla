----------------------------- MODULE Tokenizer -----------------------------
(***************************************************************************)
(* ClipTokenizer of src/clip.cpp: encode_padded on one text.               *)
(*                                                                         *)
(* Bytes are characters here, and a symbol is the sequence of the          *)
(* characters it spells; the last one of a word carries the end of word,   *)
(* which makes it a character of its own.  The identity of a token is its  *)
(* symbol.                                                                 *)
(***************************************************************************)
EXTENDS Integers, Sequences, SequencesExt, Selection

CONSTANTS
  Kind,          \* of each character: "space", "letter", "digit" or "other"
  Lower,         \* of each character: tolower
  EndOfWord,     \* of each character: the same with </w>
  Contractions,  \* the words that begin with an apostrophe
  Inputs,        \* a text and the merges of merges.txt, a sequence of pairs of symbols
  N_CTX          \* 77

Chars == DOMAIN Kind

\* A training notes each pair once, and it joins characters and what it joined before, so
\* what a merge makes is no part of that merge or of an earlier one.
LearntInOrder(merges) ==
  \A q, r \in DOMAIN merges :
    /\ q < r => merges[q] # merges[r]
    /\ q <= r => merges[r][1] \o merges[r][2] \notin {merges[q][1], merges[q][2]}

TokenAssumption ==
  /\ Kind \in [Chars -> {"space", "letter", "digit", "other"}]
  /\ Lower \in [Chars -> Chars] /\ DOMAIN EndOfWord = Chars
  /\ Contractions \subseteq Seq({c \in Chars : Kind[c] # "space"})
  /\ LET Symbol == Seq(Chars \cup {EndOfWord[c] : c \in Chars})
     IN  \A in \in Inputs :
           /\ in.text \in Seq(Chars)
           /\ in.merges \in Seq(Symbol \X Symbol) /\ LearntInOrder(in.merges)
  /\ N_CTX \in Nat /\ N_CTX >= 2

VARIABLES
  pc,       \* "words", "merge", "done"
  given,    \* text and merges
  i,        \* place in the text
  sym,      \* of the word in work
  word,     \* history: sym before the first merge
  ids, out, eos_pos

vars == <<pc, given, i, sym, word, ids, out, eos_pos>>

-----------------------------------------------------------------------------
Init ==
  /\ pc = "words"
  /\ given \in Inputs
  /\ i = 1
  /\ sym = << >> /\ word = << >>
  /\ ids = << >> /\ out = << >> /\ eos_pos = 0

lo == [k \in DOMAIN given.text |-> Lower[given.text[k]]]

\* The first place from k on whose character is of none of the kinds.
RunEnd(k, kinds) ==
  LET end[j \in k .. Len(lo) + 1] ==
        IF j <= Len(lo) /\ Kind[lo[j]] \in kinds THEN end[j + 1] ELSE j
  IN  end[k]

Contracted == {c \in Contractions : IsPrefix(c, SubSeq(lo, i, Len(lo)))}

\* Where the word ends that begins at i: the longest contraction, a run of letters, one
\* digit, or a run of anything else.
WordEnd ==
  IF Contracted # {} THEN i + Len(CHOOSE c \in Contracted : \A d \in Contracted : Len(d) <= Len(c))
  ELSE CASE Kind[lo[i]] = "letter" -> RunEnd(i, {"letter"})
         [] Kind[lo[i]] = "digit" -> i + 1
         [] Kind[lo[i]] = "other" -> RunEnd(i, {"other"})

Symbols(from, to) ==
  [k \in 1 .. to - from |->
    << IF from + k = to THEN EndOfWord[lo[to - 1]] ELSE lo[from + k - 1] >>]

SkipSpace ==
  /\ pc = "words" /\ i <= Len(lo) /\ Kind[lo[i]] = "space"
  /\ i' = i + 1
  /\ UNCHANGED <<pc, given, sym, word, ids, out, eos_pos>>

\* Mutant: the character after a word is taken for a space.
NextWordSkips ==
  /\ pc = "words" /\ i <= Len(lo) /\ Kind[lo[i]] # "space"
  /\ sym' = Symbols(i, WordEnd) /\ word' = sym'
  /\ i' = IF WordEnd <= Len(lo) THEN WordEnd + 1 ELSE WordEnd
  /\ pc' = "merge"
  /\ UNCHANGED <<given, ids, out, eos_pos>>

NextWord ==
  /\ pc = "words" /\ i <= Len(lo) /\ Kind[lo[i]] # "space"
  /\ sym' = Symbols(i, WordEnd) /\ word' = sym'
  /\ i' = WordEnd
  /\ pc' = "merge"
  /\ UNCHANGED <<given, ids, out, eos_pos>>

\* The ranks of the pairs that stand side by side.
Ranks == {r \in DOMAIN given.merges :
            \E k \in 1 .. Len(sym) - 1 : <<sym[k], sym[k + 1]>> = given.merges[r]}

\* Every occurrence of the pair made one symbol, from left to right.
Merged(symbols, pair) ==
  LET from[k \in 1 .. Len(symbols) + 1] ==
        IF k > Len(symbols) THEN << >>
        ELSE IF k < Len(symbols) /\ <<symbols[k], symbols[k + 1]>> = pair
        THEN << pair[1] \o pair[2] >> \o from[k + 2]
        ELSE << symbols[k] >> \o from[k + 1]
  IN  from[1]

\* Mutant: the first pair from the left that has a rank.
BestFirst ==
  CHOOSE r \in Ranks : \E k \in 1 .. Len(sym) - 1 :
    /\ <<sym[k], sym[k + 1]>> = given.merges[r]
    /\ \A j \in 1 .. k - 1 : \A q \in Ranks : <<sym[j], sym[j + 1]>> # given.merges[q]

Best == CHOOSE r \in Ranks : \A q \in Ranks : r <= q

Merge ==
  /\ pc = "merge" /\ Ranks # {}
  /\ sym' = Merged(sym, given.merges[Best])
  /\ UNCHANGED <<pc, given, i, word, ids, out, eos_pos>>

EndWord ==
  /\ pc = "merge" /\ Ranks = {}
  /\ ids' = ids \o sym
  /\ pc' = "words"
  /\ UNCHANGED <<given, i, sym, word, out, eos_pos>>

BOS == <<"bos">>
EOS == <<"eos">>
PAD == <<"pad">>
Least(a, b) == IF a < b THEN a ELSE b

\* Mutant: the text may fill the context but for one place.
EncodePaddedLong ==
  /\ pc = "words" /\ i > Len(lo)
  /\ LET kept == SubSeq(ids, 1, Least(Len(ids), N_CTX - 1))
         begun == << BOS >> \o kept \o << EOS >>
     IN  /\ eos_pos' = Len(begun) - 1
         /\ out' = [k \in 1 .. N_CTX |-> IF k <= Len(begun) THEN begun[k] ELSE PAD]
  /\ pc' = "done"
  /\ UNCHANGED <<given, i, sym, word, ids>>

\* The rest of encode_padded; eos_pos counts from 0.
EncodePadded ==
  /\ pc = "words" /\ i > Len(lo)
  /\ LET kept == SubSeq(ids, 1, Least(Len(ids), N_CTX - 2))
         begun == << BOS >> \o kept \o << EOS >>
     IN  /\ eos_pos' = Len(begun) - 1
         /\ out' = [k \in 1 .. N_CTX |-> IF k <= Len(begun) THEN begun[k] ELSE PAD]
  /\ pc' = "done"
  /\ UNCHANGED <<given, i, sym, word, ids>>

Next == SkipSpace \/ NextWord \/ Merge \/ EndWord \/ EncodePadded

-----------------------------------------------------------------------------
\* What each variable may hold.
TypeOK ==
  /\ pc \in {"words", "merge", "done"}
  /\ given \in Inputs /\ i \in 1 .. Len(given.text) + 1
  /\ pc = "done" <=> Len(out) = N_CTX
  /\ eos_pos \in Nat

\* The merges of the training, each done wherever it can be before the next one.
AsTrained ==
  LET after[r \in 0 .. Len(given.merges)] ==
        IF r = 0 THEN word ELSE Merged(after[r - 1], given.merges[r])
  IN  after[Len(given.merges)]

\* A word whose symbols have no more pairs to merge is divided as its training divided it,
\* although the code always goes back to the lowest rank.
MergedAsTrained == pc = "merge" /\ Ranks = {} => sym = AsTrained

\* The characters the tokens spell, and those of the text, word ends and spaces aside.
Spelled == FlattenSeq(ids)
Letters == Pick(lo, {k \in DOMAIN lo : Kind[lo[k]] # "space"})

\* No character is lost or taken twice between words, contractions, runs and merges, and
\* a word ends where the pattern ends it.
TextIsSpelled ==
  pc = "done" =>
    /\ Len(Spelled) = Len(Letters)
    /\ \A k \in DOMAIN Letters : Spelled[k] \in {Letters[k], EndOfWord[Letters[k]]}

\* "eos_pos receives the index of the EOS token", where the pooled output is taken from:
\* it is there also when the text is cut off, and only padding follows.
EosWhereTold ==
  pc = "done" =>
    /\ eos_pos < N_CTX
    /\ out[1] = BOS /\ out[eos_pos + 1] = EOS
    /\ \A k \in 2 .. eos_pos : out[k] = ids[k - 1]
    /\ \A k \in eos_pos + 2 .. N_CTX : out[k] = PAD
    /\ eos_pos < N_CTX - 1 => eos_pos = Len(ids) + 1
=============================================================================
