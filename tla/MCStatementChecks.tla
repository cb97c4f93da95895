--------------------------- MODULE MCStatementChecks ---------------------------
(* Bodies: a switch, a loop, or a block with jumps, over all choices of the     *)
(* statements at their leaves.                                                  *)
EXTENDS StatementChecks, SequencesExt

\* Trees as they are written, and their numbering.
T(k, sub) == [k |-> k, sub |-> sub]
L(k) == T(k, <<>>)
RECURSIVE Flat(_)
Flat(t) ==
  FoldLeft(LAMBDA acc, c :
             LET f == Flat(c)
                 n == Len(acc.kind)
             IN  [kind |-> acc.kind \o f.kind,
                  parent |-> acc.parent \o <<1>> \o [j \in 1 .. Len(f.kind) - 1 |-> f.parent[j + 1] + n],
                  above |-> acc.above \o [j \in 1 .. Len(f.kind) |-> {1} \cup {a + n : a \in f.above[j]}]],
           [kind |-> <<t.k>>, parent |-> <<0>>, above |-> <<{}>>], t.sub)
Body(t, nr, en) == [noreturn |-> nr # "no", gnu |-> nr = "gnu", enumerators |-> en] @@ Flat(t)

Ends2 == {L("break"), L("return"), L("expr")}
Jumps == {L("break"), L("expr"), T("if", <<L("break"), L("return")>>), T("if", <<L("break"), L("expr")>>),
          T("compound", <<L("expr"), L("break")>>)}
Block == T("compound", <<T("default", <<L("expr")>>), L("break")>>)
Clause == {T("case", <<x>>) : x \in Jumps \cup {Block, T("case", <<L("expr")>>), L("fallthrough"), L("nrcall")}}
          \cup {T("default", <<x>>) : x \in Ends2}
Item == {L("break"), L("expr"), T("case", <<L("expr")>>), T("case", <<L("break")>>),
         T("label", <<L("expr")>>)}
OneDefault(t) == Cardinality({i \in 1 .. Len(Flat(t).kind) : Flat(t).kind[i] = "default"}) <= 1
SwitchBodies ==
  {t \in {T("compound", <<T("switch", <<T("compound", <<a, b, c>>)>>), r>>) :
            a \in Clause, b \in Item, c \in Clause, r \in {L("return"), L("goto")}} :
     /\ OneDefault(t)
     /\ LET ks == {Flat(t).kind[i] : i \in 1 .. Len(Flat(t).kind)} IN "goto" \in ks <=> "label" \in ks}
\* A switch in a clause of another one.
Nest(a, b) == T("compound",
  <<T("switch", <<T("compound",
      <<a, T("case", <<T("switch", <<T("compound", <<b, T("default", <<L("break")>>), T("case", <<L("expr")>>)>>)>>)>>),
        L("break"), T("case", <<L("expr")>>)>>)>>), L("return")>>)
NestBodies == {Nest(a, b) : a \in {T("case", <<L("expr")>>), T("default", <<L("expr")>>)},
                            b \in {T("case", <<L("break")>>), L("null")}}

InLoop == {L("break"), L("continue"), L("expr"), L("goto"), T("if", <<L("goto")>>), T("if", <<L("break"), L("continue")>>),
           T("range", <<L("break")>>), T("while", <<T("compound", <<L("break"), L("null"), L("expr")>>)>>),
           T("if", <<T("if", <<L("break")>>), L("return")>>)}
LoopBodies == {T("compound", <<T(w, <<T("compound", <<a, b>>)>>), T("label", <<L("expr")>>), r>>) :
                 w \in Loops, a \in InLoop, b \in InLoop, r \in {L("return"), L("expr"), T("if", <<L("return"), L("throw")>>)}}

InBlock == {L("goto"), L("return"), L("expr"), L("null"), T("if", <<L("goto"), L("return")>>), T("if", <<L("return")>>),
            T("compound", <<L("return"), L("expr")>>)}
Label == T("label", <<L("expr")>>)
Places(a, b, c) == {<<Label, a, b, c>>, <<a, Label, b, c>>, <<a, b, Label, c>>, <<a, b, T("compound", <<Label, c>>)>>,
                    <<a, T("if", <<b, T("compound", <<Label, L("return")>>)>>), c>>}
JumpBodies == {T("compound", s) : s \in UNION {Places(a, b, c) : a \in InBlock, b \in InBlock, c \in InBlock}}

MCBodies == {Body(t, "no", 2) : t \in SwitchBodies \cup NestBodies \cup LoopBodies}
            \cup {Body(t, nr, 0) : t \in JumpBodies, nr \in {"no", "gnu", "std"}}
================================================================================
