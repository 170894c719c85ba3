---------------------------- MODULE MCSgvRegistry ----------------------------
(* Model-checking instance of SgvRegistry: every user thread runs in the   *)
(* same mm (module loads from one process), so shared creates can match.   *)
EXTENDS SgvRegistry, TLC

CONSTANT MM

MCMMOf == [u \in Users |-> MM]

MCSymmetry == Permutations(Slots) \cup Permutations(Users)

\* The locals of a call are dead outside it: the view forgets them there.
ShrinkLabels == {"ShLock", "ShPool"}
InCall(a, L) == pc[a] \in L
MCView ==
  <<slot, name, owner, ref, listed, active, cur, entries, cached, workSched,
    mutex, handles, inUse, pc,
    [a \in Actors |-> IF pc[a] = "Idle" THEN NULL ELSE tp[a]],
    [a \in Actors |-> IF InCall(a, {"CrLock", "CrAlloc", "CrInit"})
                      THEN <<crName[a], crShared[a]>> ELSE NULL],
    [a \in Actors |-> IF InCall(a, {"Put"} \cup DestroyLabels)
                      THEN putRet[a] ELSE NULL],
    [a \in Actors |-> IF \/ InCall(a, ShrinkLabels)
                         \/ /\ InCall(a, {"Put"} \cup DestroyLabels)
                            /\ putRet[a] = "ShLock"
                      THEN <<shRet[a], shNr[a], prevNr[a], circle[a]>>
                      ELSE NULL]>>

=============================================================================
