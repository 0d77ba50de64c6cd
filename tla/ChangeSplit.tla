------------------------------ MODULE ChangeSplit ------------------------------
(***************************************************************************)
(* How many change notes a withdrawal makes (internal/coordinator/         *)
(* inventory.go and planAttempt in service.go): the policy for a wallet    *)
(* that is short of notes, and the loop that plans again with a wider      *)
(* split because the wider split's fee may need more notes.                *)
(*                                                                         *)
(* The planner is external: a plan selects any number of notes, or fails.  *)
(***************************************************************************)
EXTENDS Integers, FiniteSetsExt

CONSTANTS
    Targets,    \* values of cfg.CoordinatorTargetNotes
    SplitMaxes, \* values of cfg.CoordinatorChangeSplitMax
    MaxSpends   \* bound on the notes of a wallet and of a plan

ASSUME SplitAssumption ==
    Targets \subseteq Nat /\ SplitMaxes \subseteq Nat /\ MaxSpends \in Nat \ {0}

VARIABLES
    cfg,        \* the two limits
    unreserved, \* spendable notes that no attempt holds, as planAttempt counted them
    policy,     \* changeSplitPolicy
    at,         \* before the first plan, in the loop, or past it
    current,    \* SplitChange of the last plan that succeeded
    spends,     \* the number of notes it selects
    widen,      \* turns of the loop
    end         \* how the loop ended

splitVars == <<cfg, unreserved, policy, at, current, spends, widen, end>>

\* A zero max disables splitting: it is off, the request is itself a split, or the
\* summary or the reservations cannot be read ("readable" is false).
splitPolicy(limits, spendable, reserved, readable) ==
    IF limits.target < 1 \/ limits.max < 2 \/ ~readable THEN [deficit |-> 0, max |-> 0]
    ELSE [deficit |-> limits.target - Max({spendable - reserved, 0}), max |-> limits.max]

\* SplitChange for a plan that spends so many notes; 0 leaves the change in one.
options(p, notes) ==
    LET want == p.deficit + Max({notes, 1})
    IN  IF p.max < 2 \/ want < 2 THEN 0 ELSE Min({want, p.max})

\* The policy for a wallet; notes may be reserved that the summary does not have.
SplitInit ==
    /\ cfg \in [target : Targets, max : SplitMaxes]
    /\ \E spendable, reserved \in 0 .. MaxSpends, readable \in BOOLEAN :
          /\ unreserved = Max({spendable - reserved, 0})
          /\ policy = splitPolicy(cfg, spendable, reserved, readable)
    /\ at = "plan"
    /\ current = options(policy, 1)
    /\ spends = 0 /\ widen = 0 /\ end = ""

\* The first plan; one that fails ends the attempt, or planning, without a loop.
FirstPlan ==
    /\ at = "plan"
    /\ \/ at' = "loop" /\ spends' \in 1 .. MaxSpends
       \/ at' = "unplanned" /\ UNCHANGED spends
    /\ UNCHANGED <<cfg, unreserved, policy, current, widen, end>>

Ends(how) ==
    /\ at' = "reserve" /\ end' = how
    /\ UNCHANGED <<cfg, unreserved, policy, current, spends, widen>>

\* Mutant: the plan is made wider once.
WidenOnce ==
    LET wider == options(policy, spends)
    IN  /\ at = "loop"
        /\ widen < cfg.max
        /\ \/ (wider <= current \/ widen = 1) /\ Ends("covered")
           \/ wider > current /\ Ends("failed")
           \/ /\ wider > current /\ widen = 0
              /\ current' = wider /\ spends' \in 1 .. MaxSpends /\ widen' = widen + 1
              /\ UNCHANGED <<cfg, unreserved, policy, at, end>>

\* A turn of the loop: the split covers the selection, the wider plan fails, or it
\* takes the place of the last one.
Widen ==
    LET wider == options(policy, spends)
    IN  /\ at = "loop"
        /\ widen < cfg.max
        /\ \/ wider <= current /\ Ends("covered")
           \/ wider > current /\ Ends("failed")
           \/ /\ wider > current
              /\ current' = wider /\ spends' \in 1 .. MaxSpends /\ widen' = widen + 1
              /\ UNCHANGED <<cfg, unreserved, policy, at, end>>

\* The counter runs out.
WidenLimit == at = "loop" /\ widen >= cfg.max /\ Ends("limit")

SplitNext == FirstPlan \/ Widen \/ WidenLimit

SplitSpec == SplitInit /\ [][SplitNext]_splitVars

-----------------------------------------------------------------------------
\* When the loop ends the change makes up for the notes that are spent and the
\* notes that were missing, unless the maximum or a failed plan is in the way;
\* its counter never is (Service.planAttempt).
SplitReachesTarget ==
    at = "reserve" /\ policy.max > 0 =>
        \/ unreserved - spends + Max({current, 1}) >= cfg.target
        \/ current = cfg.max
        \/ end = "failed"

-----------------------------------------------------------------------------
\* The inductive invariant behind SplitReachesTarget.

SplitTypeOK ==
    /\ cfg \in [target : Nat, max : Nat]
    /\ unreserved \in Nat
    /\ policy \in [deficit : Int, max : Nat]
    /\ at \in {"plan", "unplanned", "loop", "reserve"}
    /\ current \in Nat /\ spends \in Nat /\ widen \in Nat
    /\ end \in {"", "covered", "failed", "limit"}

\* The policy is off, or that of the wallet.
PolicyInv ==
    \/ policy.max = 0
    \/ policy = [deficit |-> cfg.target - unreserved, max |-> cfg.max] /\ cfg.max >= 2

\* The split is wider by at least one after every turn, and never too wide.
WiderInv ==
    /\ at # "plan" /\ at # "unplanned" => spends >= 1
    /\ widen <= current
    /\ policy.max > 0 => current <= cfg.max

SplitInv == SplitTypeOK /\ PolicyInv /\ WiderInv /\ SplitReachesTarget
=============================================================================
