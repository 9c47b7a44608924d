----------------------------- MODULE MCDirLock -----------------------------
(***************************************************************************)
(* The instances of DirLock: a small directory tree on one runner (and the *)
(* same tree on a second one), three or four chats; and the loop of        *)
(* processWaitersLocked as a fold, to compare with IsGrantPass.            *)
(***************************************************************************)
EXTENDS DirLock, Sequences, SequencesExt, TLC

CONSTANTS A, B, C, D, r1, r2

\* A path is the sequence of its components.
w == <<"w">>
x == <<"w", "x">>
y == <<"w", "y">>
MCDirs == {w, x, y}
MCUnder == {p \in MCDirs \X MCDirs : IsPrefix(p[1], p[2])}
RunnersOf(chats) == [c \in chats |-> IF c = D THEN r2 ELSE r1]

Req(c, ds, m) == [chat |-> c, dirs |-> ds, mode |-> m]

\* A reads x, then may upgrade or expand; B works in the parent; C reads; D is
\* on another runner.
MixedRequests == {Req(A, {x}, "readonly"), Req(A, {x, y}, "exclusive"),
                  Req(B, {w}, "exclusive"), Req(C, {x}, "readonly"),
                  Req(C, {y}, "exclusive"), Req(D, {x}, "exclusive")}

\* Agents of A called side by side: one reads y, the others write x or y.
SideBySide == {Req(A, {x}, "exclusive"), Req(A, {y}, "readonly"), Req(A, {y}, "exclusive"),
               Req(B, {w}, "exclusive"), Req(C, {y}, "readonly")}

MCRunnerOf == RunnersOf(Chats)

CallSymmetry == Permutations(Calls)

-----------------------------------------------------------------------------
(* The loop of processWaitersLocked, one waiter after the other *)

WaiterList == SetToSortSeq(Waiting, LAMBDA j, k : j \in ahead[k])

LoopBody(acc, k) ==
    LET blocked == \/ BlockedByHolder(acc.hs, call[k].chat, call[k])
                   \/ \E e \in acc.kept : /\ SameRunner(call[e].chat, call[k].chat)
                                          /\ Clash(call[k], call[e])
        h == acc.hs[call[k].chat]
        merged == [dirs |-> h.dirs \cup call[k].dirs,
                   mode |-> IF call[k].mode = "exclusive" THEN "exclusive" ELSE h.mode,
                   reason |-> "running",
                   activeRuns |-> h.activeRuns + 1]
    IN  IF blocked THEN [acc EXCEPT !.kept = @ \cup {k}]
        ELSE [acc EXCEPT !.hs[call[k].chat] = merged, !.granted = @ \cup {k}]

Loop(hs) == FoldLeft(LoopBody, [hs |-> hs, kept |-> {}, granted |-> {}], WaiterList)

\* The declarative pass is the loop: whichever chat's lock goes away, exactly
\* one set of waiters satisfies IsGrantPass, it is the one the loop over
\* m.waiters grants, and the locks come out the same.
GrantPassIsLoop ==
    \A c \in Chats :
        LET hs == [holders EXCEPT ![c] = Free]
        IN  /\ {G \in SUBSET Waiting : IsGrantPass(hs, Waiting, G)} = {Loop(hs).granted}
            /\ HoldersWith(hs, Loop(hs).granted) = Loop(hs).hs
=============================================================================
