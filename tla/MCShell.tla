-------------------------------- MODULE MCShell --------------------------------
(* Every line of up to four characters, lines of up to four pieces, with more      *)
(* words than try_exec passes on and clusters with arguments, and lines of five     *)
(* words, more than parse keeps. One program knows one plain option, the other      *)
(* that and one with an argument.                                                   *)
EXTENDS Shell, TLC
Pieces == { <<"a", " ">>, <<"-", "a", "o", " ">>, <<"-", "o", " ">>, <<"-", "-", " ">>,
            <<"-", " ">>, <<"'", "'">>, <<"'", "a", " ">>, <<" ">> }
Short  == { <<"a", " ">>, <<"-", "o", " ">>, <<"'", "'">> }
MCLines == UNION {[1 .. n -> Chars] : n \in 1 .. 4} \cup
           {FlattenSeq(ps) : ps \in UNION {[1 .. n -> Pieces] : n \in 2 .. 4}} \cup
           {FlattenSeq(ps) : ps \in [1 .. 5 -> Short]}
MCOptStrings == { "a" :> FALSE, "a" :> FALSE @@ "o" :> TRUE }
MCBuiltins == { << "o" >> }
================================================================================
