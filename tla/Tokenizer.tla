------------------------------ MODULE Tokenizer ------------------------------
(***************************************************************************)
(* The BPE tokenizer that comes with NNSpire as its reference plugin: a    *)
(* table of merge rules, encode and decode.  A text is typed a character   *)
(* at a time and encoded after each.  Texts and symbols are sequences of   *)
(* characters.                                                             *)
(***************************************************************************)
EXTENDS Integers, Sequences, SequencesExt, FiniteSets, FiniteSetsExt

CONSTANTS
  Merges,   \* rules in use: those of kMerges, of which TLC takes some
  Letters,  \* characters typed
  MaxText   \* bound: characters of the text

VARIABLES text, tokens
tokenizerVars == <<text, tokens>>

Space == " "

kMerges == <<
  <<<<" ">>, <<"t">>>>, <<<<" ">>, <<"a">>>>, <<<<" ">>, <<"o">>>>, <<<<" ">>, <<"i">>>>,
  <<<<" ">>, <<"s">>>>, <<<<" ">>, <<"n">>>>, <<<<" ">>, <<"w">>>>, <<<<" ">>, <<"h">>>>,
  <<<<" ">>, <<"b">>>>, <<<<" ">>, <<"f">>>>, <<<<" ">>, <<"c">>>>, <<<<" ">>, <<"r">>>>,
  <<<<" ">>, <<"p">>>>, <<<<" ">>, <<"m">>>>, <<<<" ">>, <<"l">>>>, <<<<" ">>, <<"d">>>>,
  <<<<" ">>, <<"e">>>>, <<<<" ">>, <<"g">>>>, <<<<" ">>, <<"u">>>>, <<<<" ">>, <<"y">>>>,
  <<<<"t">>, <<"h">>>>, <<<<"h">>, <<"e">>>>, <<<<"i">>, <<"n">>>>, <<<<"e">>, <<"r">>>>,
  <<<<"a">>, <<"n">>>>, <<<<"r">>, <<"e">>>>, <<<<"o">>, <<"n">>>>, <<<<"e">>, <<"n">>>>,
  <<<<"a">>, <<"t">>>>, <<<<"e">>, <<"s">>>>, <<<<"o">>, <<"r">>>>, <<<<"n">>, <<"t">>>>,
  <<<<"i">>, <<"s">>>>, <<<<"a">>, <<"r">>>>, <<<<"e">>, <<"d">>>>, <<<<"o">>, <<"u">>>>,
  <<<<"i">>, <<"t">>>>, <<<<"a">>, <<"l">>>>, <<<<"i">>, <<"o">>>>, <<<<"t", "h">>, <<"e">>>>,
  <<<<"i", "n">>, <<"g">>>>, <<<<" ", "t">>, <<"h", "e">>>>, <<<<"e", "r">>, <<"s">>>>,
  <<<<"i">>, <<"o", "n">>>>, <<<<"a", "t">>, <<"i">>>>, <<<<"a", "t", "i">>, <<"o", "n">>>>,
  <<<<"o", "r">>, <<"e">>>>, <<<<"a", "n">>, <<"d">>>>, <<<<" ">>, <<"a", "n", "d">>>>,
  <<<<"r", "e">>, <<"s">>>>, <<<<"a", "l">>, <<"l">>>>, <<<<"t", "h">>, <<"a", "t">>>>,
  <<<<"e">>, <<"d", " ">>>>, <<<<"o", "u">>, <<"t">>>>, <<<<"a", "r">>, <<"e">>>>,
  <<<<" ", "a">>, <<"r", "e">>>>, <<<<"o", "u">>, <<"r">>>>, <<<<"h", "e">>, <<"r">>>>,
  <<<<"h", "i">>, <<"s">>>>, <<<<"w", "i">>, <<"t", "h">>>>, <<<<"0">>, <<"0">>>>,
  <<<<"1">>, <<"0">>>>, <<<<"2">>, <<"0">>>> >>

\* What a rule makes takes part in no rule before it.
InOrder(rules) ==
  \A r, q \in DOMAIN rules :
    q < r => rules[r][1] \o rules[r][2] \notin {rules[q][1], rules[q][2]}

\* So is the whole table, to which the proofs apply with it for Merges.
ASSUME TableInOrder == InOrder(kMerges)

\* The place of a rule among those in use is its rank.
ASSUME MergesAssumption ==
  Merges \in Seq(Seq(STRING) \X Seq(STRING)) /\ InOrder(Merges)

-----------------------------------------------------------------------------

Merged(symbols, i) ==
  SubSeq(symbols, 1, i - 1) \o <<symbols[i] \o symbols[i + 1]>> \o SubSeq(symbols, i + 2, Len(symbols))

\* The places where a rule of the table applies, by the rank of the rule.
PlacesOf(rank, symbols) ==
  {i \in 1..(Len(symbols) - 1) : <<symbols[i], symbols[i + 1]>> = Merges[rank]}

Ranks(symbols) == {r \in DOMAIN Merges : PlacesOf(r, symbols) # {}}

\* Mutation: of several places with the best rank, any but the first is taken.
RoundLast(symbols) ==
  IF Ranks(symbols) = {} THEN symbols
  ELSE Merged(symbols, Max(PlacesOf(Min(Ranks(symbols)), symbols)))

\* The first pair with the lowest rank is merged, if there is one.
Round(symbols) ==
  IF Ranks(symbols) = {} THEN symbols
  ELSE Merged(symbols, Min(PlacesOf(Min(Ranks(symbols)), symbols)))

\* While there is a pair with a rule; every round takes a symbol away.
bpeWord(symbols) == FoldLeft(LAMBDA s, n : Round(s), symbols, symbols)

\* A word ends behind its space.
Taken(words, c) ==
  IF words # <<>> /\ Last(Last(words)) # Space
  THEN Front(words) \o <<Append(Last(words), c)>>
  ELSE Append(words, <<c>>)

Words(chars) == FoldLeft(Taken, <<>>, chars)

Split(word) == [i \in DOMAIN word |-> <<word[i]>>]

bpe_encode(chars) ==
  LET words == Words(chars) IN FlattenSeq([i \in DOMAIN words |-> bpeWord(Split(words[i]))])

bpe_decode(ids) == FlattenSeq(ids)

-----------------------------------------------------------------------------

TokenizerInit == text = <<>> /\ tokens = bpe_encode(<<>>)

Type(c) ==
  /\ Len(text) < MaxText
  /\ text' = Append(text, c)
  /\ tokens' = bpe_encode(text')

TokenizerNext == \E c \in Letters : Type(c)

TokenizerSpec == TokenizerInit /\ [][TokenizerNext]_tokenizerVars

-----------------------------------------------------------------------------

\* A rule by itself, at the first place where it applies.
Applied(symbols, rank) ==
  IF PlacesOf(rank, symbols) = {} THEN symbols ELSE Merged(symbols, Min(PlacesOf(rank, symbols)))

\* The same until it applies nowhere.
AppliedAll(symbols, rank) == FoldLeft(LAMBDA s, n : Applied(s, rank), symbols, symbols)

\* Byte-pair encoding as it is trained: the rules one after the other, each
\* from left to right until it applies nowhere.
Reference(symbols) == FoldLeft(AppliedAll, symbols, [r \in DOMAIN Merges |-> r])

\* Encoding gives what byte-pair encoding with this table gives, decoding gives
\* the text back, and the tokens of a text that ends a word stay as they are
\* whatever is typed behind it.
EncodesLikeBpe ==
  /\ LET words == Words(text)
     IN  tokens = FlattenSeq([i \in DOMAIN words |-> Reference(Split(words[i]))])
  /\ bpe_decode(tokens) = text
  /\ \A n \in DOMAIN text : text[n] = Space => IsPrefix(bpe_encode(SubSeq(text, 1, n)), tokens)
=============================================================================
