------------------------------ MODULE Wildcard -------------------------------
(***************************************************************************)
(* utils/wildcard.rs: the filters of a source and of a sync, which decide  *)
(* what volumes are backed up.  The row `dp` is updated in place, so that  *)
(* the order in which a row is swept is part of the algorithm; Denotes is  *)
(* what it is meant to compute.  Names are sequences of characters.        *)
(***************************************************************************)
EXTENDS Naturals, Sequences

(* One row of dp is written over the one before it, index by index.        *)

(* '*' extends any previous match forward: what is read to the left is of  *)
(* the new row.                                                            *)
StarRow(dp, txt) ==
  LET new[j \in 0 .. Len(txt)] == IF j = 0 THEN dp[0] ELSE dp[j] \/ new[j - 1]
  IN  new

(* Any other character takes one of the text; the loop runs from right to  *)
(* left, so that what is read to the left is of the old row.               *)
CharRowForward(dp, c, txt) ==
  LET new[j \in 0 .. Len(txt)] ==
        IF j = 0 THEN dp[0] ELSE new[j - 1] /\ c \in {"?", txt[j]}
  IN  [new EXCEPT ![0] = FALSE]

CharRow(dp, c, txt) ==
  [j \in 0 .. Len(txt) |-> j > 0 /\ dp[j - 1] /\ c \in {"?", txt[j]}]

WildcardMatch(pattern, txt) ==
  LET dp[i \in 0 .. Len(pattern)] ==
        IF i = 0 THEN [j \in 0 .. Len(txt) |-> j = 0]
        ELSE IF pattern[i] = "*" THEN StarRow(dp[i - 1], txt)
             ELSE CharRow(dp[i - 1], pattern[i], txt)
  IN  dp[Len(pattern)][Len(txt)]

(* A volume is selected by any one pattern of a filter.                    *)
Selected(filter, name) == {p \in filter : WildcardMatch(p, name)} # {}

-----------------------------------------------------------------------------
(* The text can be cut into one piece per character of the pattern: any    *)
(* piece for '*', one character for '?', that character for another one.   *)
Denotes(pattern, txt) ==
  \E cut \in [0 .. Len(pattern) -> 0 .. Len(txt)] :
    /\ cut[0] = 0
    /\ cut[Len(pattern)] = Len(txt)
    /\ \A i \in 1 .. Len(pattern) :
         IF pattern[i] = "*" THEN cut[i - 1] <= cut[i]
         ELSE cut[i] = cut[i - 1] + 1 /\ pattern[i] \in {"?", txt[cut[i]]}

=============================================================================
