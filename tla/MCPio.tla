------------------------------- MODULE MCPio -------------------------------
(***************************************************************************)
(* Two blocks of two state machines, an engine, the blitter and a user.    *)
(***************************************************************************)
EXTENDS Pio, FiniteSetsExt

CONSTANTS pattern, blit, user, MaxWords, MaxForeign

MCParts == [u \in Users |-> CASE u = pattern -> 2 [] u = blit -> 3 [] u = user -> 1]

Fifos == Blocks \X SMs

\* The words in all FIFOs together: enough to fill one and begin another.
FewWords == MapThenSumSet(LAMBDA p : Len(tx[p[1]][p[2]]), Fifos) <= MaxWords

\* Of these, the words of the user: enough to come between those of a group.
UserWords(q) == Cardinality({i \in DOMAIN q : q[i].from = user})

FewForeign == MapThenSumSet(LAMBDA p : UserWords(tx[p[1]][p[2]]), Fifos) <= MaxForeign

\* One state machine disturbed at a time.
FewDisturbed == Cardinality({p \in Fifos : disturbed[p[1]][p[2]]}) <= 1

\* After a panic only a reset does anything that is new.
Bounds == FewWords /\ FewForeign /\ FewDisturbed /\ ~halted
=============================================================================
