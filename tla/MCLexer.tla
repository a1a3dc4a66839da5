------------------------------ MODULE MCLexer ------------------------------
(***************************************************************************)
(* Instances of Lexer for TLC: all short texts over a few alphabets.       *)
(***************************************************************************)
EXTENDS Lexer

MCLetters == {"i", "n", "t", "o", "e", "I", "a", "r", "u", "l"}
MCDigits  == {"0", "1"}
MClower   == [c \in {"I"} |-> "i"]

\* Keywords that begin with one another, and one with a space
MCKeywords ==
  {<<"i","n","t">>, <<"i","n","t","o">>, <<"o","n">>, <<"n","o"," ","i","t">>,
   <<"t","r","u","e">>, <<"n","u","l","l">>}

MCSymbols ==
  {<<"=">>, <<"<">>, <<">">>, <<"<", "=">>, <<">", "=">>, <<"<", ">">>, <<"!", "=">>,
   <<"|", "|">>, <<"+">>, <<"(">>}

WordSources    == BoundedSeq({"i", "n", "t", "o", " "}, 5)
CaseSources    == BoundedSeq({"I", "n", "t", "_"}, 4)
NumberSources  == BoundedSeq({"1", ".", "e", "+", "\n"}, 4)
QuoteSources   == BoundedSeq({"'", "\"", "a", "\n"}, 5)
ValueSources   == {<<"t","r","u","e">>, <<"n","u","l","l"," ","t","r","u","e","1">>}
SymbolSources  == BoundedSeq({"<", ">", "=", "!", "|", "\n"}, 3)

MCSources == WordSources \cup CaseSources \cup NumberSources \cup QuoteSources
               \cup SymbolSources \cup ValueSources
==============================================================================
