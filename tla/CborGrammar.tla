---------------------------- MODULE CborGrammar ----------------------------
(***************************************************************************)
(* The reference against which the builder's token streams are judged:    *)
(* when a sequence of CBOR tokens (as AuxDataHashBuilder represents them)  *)
(* is one complete, canonically ordered data item, or the beginning of     *)
(* one.  A definition of the encoding, not of the code: it follows the     *)
(* canonical shape stated in spec.md section 4.1 and the deterministic      *)
(* encoding rules of CBOR (definite lengths, map keys unsigned and in      *)
(* strictly ascending order).                                              *)
(*                                                                         *)
(* The stream is read left to right with a stack of open containers.  A   *)
(* frame counts the items still owed to its array or map (a map of n       *)
(* entries owes 2n items, and the item it is owed next is a key when that  *)
(* count is even); a BYTES header owes one DATA token.                     *)
(***************************************************************************)
EXTENDS Integers, Sequences

Frame(n, isMap) == [left |-> IF isMap THEN 2 * n ELSE n, map |-> isMap,
                    last |-> -1]

\* Before the first token, one top-level item is owed.
Start == [stack |-> <<Frame(1, FALSE)>>, pending |-> FALSE, err |-> FALSE]

Error == [stack |-> <<>>, pending |-> FALSE, err |-> TRUE]

\* One item of the innermost container has begun.
Taken(st) == [st EXCEPT ![Len(st)].left = @ - 1]

\* Close every innermost container that owes nothing more.
Settle(st) ==
  LET k == CHOOSE k \in 0 .. Len(st) :
             /\ k = 0 \/ st[k].left > 0
             /\ \A j \in k + 1 .. Len(st) : st[j].left = 0
  IN  SubSeq(st, 1, k)

Step(ps, tok) ==
  LET st    == ps.stack
      top   == st[Len(st)]
      isKey == top.map /\ top.left % 2 = 0
      keyed == IF isKey THEN [st EXCEPT ![Len(st)].last = tok.v] ELSE st
  IN  IF ps.err THEN ps
      ELSE IF ps.pending
        THEN IF tok.t = "DATA"
               THEN [ps EXCEPT !.pending = FALSE, !.stack = Settle(Taken(st))]
               ELSE Error
      ELSE IF tok.t = "DATA" \/ st = <<>> THEN Error
      ELSE IF isKey /\ ~(tok.t = "UNSIGNED" /\ tok.v > top.last) THEN Error
      ELSE CASE tok.t = "BYTES" ->
                  [ps EXCEPT !.stack = keyed, !.pending = TRUE]
             [] tok.t \in {"ARRAY", "MAP"} /\ tok.v > 0 ->
                  [ps EXCEPT !.stack = Append(Taken(keyed),
                                              Frame(tok.v, tok.t = "MAP"))]
             [] OTHER ->
                  [ps EXCEPT !.stack = Settle(Taken(keyed))]

Parse(s) ==
  LET P[i \in 0 .. Len(s)] == IF i = 0 THEN Start ELSE Step(P[i - 1], s[i])
  IN  P[Len(s)]

\* s is exactly one complete data item.
IsCompleteItem(s) ==
  LET r == Parse(s) IN ~r.err /\ ~r.pending /\ r.stack = <<>>

\* s can still be extended to a complete data item.
IsItemPrefix(s) == ~Parse(s).err
=============================================================================
