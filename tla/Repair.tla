------------------------------- MODULE Repair -------------------------------
(***************************************************************************)
(* The life of a repair candidate (repair.py): proposed, verified against  *)
(* the registered artifacts, approved, signed, deployed.  The calls are    *)
(* the endpoints of legacy_api.py; they run in threads without a lock,     *)
(* and read and write the same candidates and the same registry.           *)
(*                                                                         *)
(* The form of an artifact is the sequence of the repairs patched into it. *)
(* Each test and each group of consecutive writes of a call is one step.   *)
(* A candidate's patches never change, so its own hash always agrees; a    *)
(* signature is the report and the approval it was computed from.          *)
(*                                                                         *)
(* Bounds: the set Repairs, Limit.                                         *)
(***************************************************************************)
EXTENDS Integers, Sequences, SequencesExt, FiniteSets, TLC

CONSTANTS
  Repairs, Clients, None,
  Limit        \* bound on the calls of each kind


Kinds == {"verify", "approve", "sign", "deploy"}

ASSUME RepairAssumption == None \notin Repairs \cup Clients /\ Limit \in [Kinds -> Nat]

VARIABLES
  contract,     \* registry.contracts: [version, form]
  profiles,     \* registry.profiles: the form
  tissue,       \* registry.tissues: [version, last]
  repair,       \* the candidates; their status is "none" before they are proposed
  call,         \* what each client is doing
  calls,        \* calls begun, of each kind
  signed,       \* how often each candidate was signed
  deployments,  \* registry.deployments
  overlapped    \* two deploy calls have run at the same time

artifacts == <<contract, profiles, tissue>>
vars == <<artifacts, repair, call, calls, signed, deployments, overlapped>>

NextVersion(v) == v + 1
Unborn == [status |-> "none", base |-> 0, report |-> None, approval |-> None, signature |-> None]

\* What a call has read: seen is the registered contract, on a report, seal a signature or
\* what one will bind, inForce what it ought to bind; new is what a deployment has built.
Idle == [at |-> "idle", repair |-> None, id |-> 0, seen |-> None, on |-> None,
         seal |-> None, inForce |-> None, new |-> None]

Init == /\ contract = [version |-> 0, form |-> <<>>]
        /\ profiles = <<>>
        /\ tissue = [version |-> 0, last |-> None]
        /\ repair = [r \in Repairs |-> Unborn]
        /\ call = [c \in Clients |-> Idle]
        /\ calls = [k \in Kinds |-> 0] /\ signed = [r \in Repairs |-> 0]
        /\ deployments = {} /\ overlapped = FALSE

\* propose: the base is the contract registered now.
Propose(r) ==
  /\ repair[r].status = "none"
  /\ repair' = [repair EXCEPT ![r].status = "proposed", ![r].base = contract.version]
  /\ UNCHANGED <<artifacts, call, calls, signed, deployments, overlapped>>

Begin(c, k, at, r) ==
  /\ call[c].at = "idle" /\ calls[k] < Limit[k]
  /\ repair[r].status # "none"
  /\ calls' = [calls EXCEPT ![k] = @ + 1]
  /\ call' = [call EXCEPT ![c].at = at, ![c].repair = r, ![c].id = calls[k] + 1,
                          ![c].seen = contract, ![c].on = repair[r].report]

Passed(r) == repair[r].report # None /\ repair[r].report.ok

\* verify: the patches fit the artifacts and the tissue is bound to the contract's
\* version; then the events are replayed.
VerifyRead(c, r) ==
  /\ Begin(c, "verify", "replaying", r)
  /\ tissue.version = contract.version
  /\ UNCHANGED <<artifacts, repair, signed, deployments, overlapped>>

Verdict(ok) == IF ok THEN "verified" ELSE "verification_failed"

VerifyWrite(c) ==
  /\ call[c].at = "replaying"
  /\ \E ok \in BOOLEAN :
       repair' = [repair EXCEPT
         ![call[c].repair].report = [id |-> call[c].id, ok |-> ok, of |-> call[c].seen],
         ![call[c].repair].status = Verdict(ok)]
  /\ call' = [call EXCEPT ![c] = Idle]
  /\ UNCHANGED <<artifacts, calls, signed, deployments, overlapped>>

ApproveCheck(c, r) ==
  /\ Begin(c, "approve", "approving", r)
  /\ Passed(r)
  /\ UNCHANGED <<artifacts, repair, signed, deployments, overlapped>>

\* A new approval takes the signature away.
ApproveWrite(c) ==
  /\ call[c].at = "approving"
  /\ repair' = [repair EXCEPT ![call[c].repair].approval = [id |-> call[c].id, on |-> call[c].on],
                              ![call[c].repair].status = "approved",
                              ![call[c].repair].signature = None]
  /\ call' = [call EXCEPT ![c] = Idle]
  /\ UNCHANGED <<artifacts, calls, signed, deployments, overlapped>>

SignCheck(c, r) ==
  /\ Begin(c, "sign", "signing", r)
  /\ repair[r].approval # None
  /\ Passed(r)
  /\ UNCHANGED <<artifacts, repair, signed, deployments, overlapped>>

\* repair_signing_hash
Payload(r) == [report |-> repair[r].report, approval |-> repair[r].approval]

SignHash(c) ==
  /\ call[c].at = "signing"
  /\ call' = [call EXCEPT ![c].at = "sealing", ![c].seal = Payload(call[c].repair)]
  /\ UNCHANGED <<artifacts, repair, calls, signed, deployments, overlapped>>

SignWrite(c) ==
  /\ call[c].at = "sealing"
  /\ repair' = [repair EXCEPT ![call[c].repair].signature = call[c].seal,
                              ![call[c].repair].status = "signed"]
  /\ signed' = [signed EXCEPT ![call[c].repair] = @ + 1]
  /\ call' = [call EXCEPT ![c] = Idle]
  /\ UNCHANGED <<artifacts, calls, deployments, overlapped>>

Deploying(c) ==
  call[c].at \in {"checking", "status", "report", "applying", "promoting", "contract", "profiles", "tissue"}

DeployRead(c, r) ==
  /\ Begin(c, "deploy", "checking", r)
  /\ overlapped' = (overlapped \/ \E d \in Clients : Deploying(d))
  /\ UNCHANGED <<artifacts, repair, signed, deployments>>

\* A test of deploy(), which goes on or raises.
Test(c, at, passes, next) ==
  /\ call[c].at = at
  /\ call' = [call EXCEPT ![c] = IF passes THEN next ELSE Idle]
  /\ UNCHANGED <<artifacts, repair, calls, signed, deployments, overlapped>>

\* RepairSigner.verify.
SignatureValid(r) == repair[r].signature # None /\ repair[r].signature = Payload(r)
CheckSignature(c) ==
  LET r == call[c].repair
  IN  Test(c, "checking", SignatureValid(r),
           [call[c] EXCEPT !.at = "status", !.seal = repair[r].signature, !.inForce = Payload(r)])

CheckStatus(c) == Test(c, "status", repair[call[c].repair].status = "signed", [call[c] EXCEPT !.at = "report"])

\* (Mutant: the report is there, whatever it says.)
AnyReport(r) == repair[r].report # None
Deployable(r) == Passed(r)
CheckReport(c) ==
  LET r == call[c].repair
  IN  Test(c, "report", Deployable(r), [call[c] EXCEPT !.at = "applying", !.on = repair[r].report])

\* The patched copies of the contract as it was read and of the profiles as they are now,
\* and the tissue that goes with them.  (Mutant: the tissue is not bound to the new version.)
Patched(c, old) ==
  LET r == call[c].repair
      v == NextVersion(repair[r].base)
  IN [contract |-> [version |-> v, form |-> Append(call[c].seen.form, r)],
      profiles |-> Append(old, r),
      tissue |-> [version |-> v, last |-> r]]
Unbound(c, old) == [Patched(c, old) EXCEPT !.tissue.version = call[c].seen.version]
Built(c, old) == Patched(c, old)

DeployApply(c) ==
  /\ call[c].at = "applying"
  /\ call' = [call EXCEPT ![c].at = "promoting", ![c].new = Built(c, profiles)]
  /\ UNCHANGED <<artifacts, repair, calls, signed, deployments, overlapped>>

\* The patches do not fit, the result is not valid, or the bundle cannot be written.
DeployFail(c) ==
  /\ call[c].at \in {"applying", "promoting"}
  /\ call' = [call EXCEPT ![c] = Idle]
  /\ UNCHANGED <<artifacts, repair, calls, signed, deployments, overlapped>>

\* (Mutant: the candidate is left as it is.)
LeaveSigned(r) == repair
MarkDeployed(r) == [repair EXCEPT ![r].status = "deployed"]

DeployDone(c) ==
  /\ call[c].at = "promoting"
  /\ repair' = MarkDeployed(call[c].repair)
  /\ call' = [call EXCEPT ![c].at = "contract"]
  /\ UNCHANGED <<artifacts, calls, signed, deployments, overlapped>>

\* The endpoint registers the three results one after the other.
RegisterContract(c) ==
  /\ call[c].at = "contract"
  /\ contract' = call[c].new.contract
  /\ call' = [call EXCEPT ![c].at = "profiles"]
  /\ UNCHANGED <<profiles, tissue, repair, calls, signed, deployments, overlapped>>

RegisterProfiles(c) ==
  /\ call[c].at = "profiles"
  /\ profiles' = call[c].new.profiles
  /\ call' = [call EXCEPT ![c].at = "tissue"]
  /\ UNCHANGED <<contract, tissue, repair, calls, signed, deployments, overlapped>>

RegisterTissue(c) ==
  /\ call[c].at = "tissue"
  /\ tissue' = call[c].new.tissue
  /\ deployments' = deployments \cup {[repair |-> call[c].repair, from |-> call[c].seen,
                                       to |-> call[c].new.contract, seal |-> call[c].seal,
                                       inForce |-> call[c].inForce, on |-> call[c].on]}
  /\ call' = [call EXCEPT ![c] = Idle]
  /\ UNCHANGED <<contract, profiles, repair, calls, signed, overlapped>>

Proceed(c) ==
  \/ VerifyWrite(c) \/ ApproveWrite(c) \/ SignHash(c) \/ SignWrite(c)
  \/ CheckSignature(c) \/ CheckStatus(c) \/ CheckReport(c)
  \/ DeployApply(c) \/ DeployFail(c) \/ DeployDone(c)
  \/ RegisterContract(c) \/ RegisterProfiles(c) \/ RegisterTissue(c)

Next == \E c \in Clients :
          \/ \E r \in Repairs : VerifyRead(c, r) \/ ApproveCheck(c, r) \/ SignCheck(c, r) \/ DeployRead(c, r)
          \/ Proceed(c)
        \/ \E r \in Repairs : Propose(r)

Spec == Init /\ [][Next]_vars
-----------------------------------------------------------------------------
OrNone(S) == S \cup {None}
Contracts == [version : Nat, form : Seq(Repairs)]
Tissues == [version : Nat, last : OrNone(Repairs)]
Artifacts == [contract : Contracts, profiles : Seq(Repairs), tissue : Tissues]
Reports == [id : Nat, ok : BOOLEAN, of : Contracts]
Approvals == [id : Nat, on : Reports]
Payloads == [report : OrNone(Reports), approval : OrNone(Approvals)]
Statuses == {"none", "proposed", "verified", "verification_failed", "approved", "signed", "deployed"}
Candidates == [status : Statuses, base : Nat, report : OrNone(Reports),
               approval : OrNone(Approvals), signature : OrNone(Payloads)]
Places == {"idle", "replaying", "approving", "signing", "sealing", "checking", "status", "report",
           "applying", "promoting", "contract", "profiles", "tissue"}
CallStates == [at : Places, repair : OrNone(Repairs), id : Nat,
               seen : OrNone(Contracts), on : OrNone(Reports),
               seal : OrNone(Payloads), inForce : OrNone(Payloads), new : OrNone(Artifacts)]

TypeOK ==
  /\ contract \in Contracts /\ profiles \in Seq(Repairs) /\ tissue \in Tissues
  /\ repair \in [Repairs -> Candidates]
  /\ call \in [Clients -> CallStates]
  /\ calls \in [Kinds -> Nat] /\ signed \in [Repairs -> Nat] /\ overlapped \in BOOLEAN
  /\ deployments \subseteq [repair : Repairs, from : Contracts, to : Contracts,
                            seal : Payloads, inForce : Payloads, on : Reports]

Count(s, r) == Cardinality({i \in DOMAIN s : s[i] = r})

\* Whatever calls overlap, nothing is deployed but under a signature that binds the report
\* and the approval in force when it was checked, the approval given upon a passing report,
\* and the report deploy() looks at last passed: not though failed verifications land in the
\* middle of signing or of deploying.  (That report is the one the signature binds unless a
\* verification has landed between the two tests of deploy().)
Gated == \A d \in deployments :
  /\ d.seal = d.inForce
  /\ d.seal.approval.on.ok /\ d.on.ok

\* A signature buys one deployment: the contract never holds a candidate's patches more
\* often than it was signed, also when two deploy calls race for the same signature.
OncePerSignature == \A r \in Repairs : Count(contract.form, r) <= signed[r]

\* Deployments that do not overlap lose nothing and leave contract, profiles and tissue
\* in agreement, although the three are registered one after the other.
Settled ==
  ~overlapped /\ (\A c \in Clients : ~Deploying(c)) =>
    /\ profiles = contract.form
    /\ tissue.version = contract.version
    /\ contract.form # <<>> => tissue.last = Last(contract.form)
    /\ \A d \in deployments : IsPrefix(d.to.form, contract.form)
=============================================================================
