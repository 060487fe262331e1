---------------------------- MODULE Repair_proofs ---------------------------
(***************************************************************************)
(* Theorems about Repair and Patches.  First, for any candidates, clients  *)
(* and limits: types, and that nothing is deployed past the gates.  The    *)
(* argument follows the passing report: an approval is begun upon one      *)
(* (Approving) and keeps it (Approved); who signs has seen an approval,    *)
(* and an approval never goes away (Signing), so that what a signature     *)
(* binds was approved (Sealed, Signed), whatever report it binds.  That    *)
(* the last report seen has passed is what a test of deploy() adds         *)
(* (Checked).                                                              *)
(* On that invariant stand two more: a signature buys one deployment       *)
(* (BoughtInv), and deployments that do not overlap leave the artifacts in *)
(* agreement (Lone).                                                       *)
(*                                                                         *)
(* Then, for any documents and drifts: a rollback restores.  A path is     *)
(* walked by a recursive function, which is unfolded, so that induction    *)
(* over a path or a list of patches is one over a set of numbers           *)
(* (Inductive); one patch and its inverse at one key of an object          *)
(* (OnObject) or one place of a list (OnList); the same at the end of a    *)
(* path (Unapplied); all patches and all inverses (AllUnapplied); and the  *)
(* patches that are generated are none whose inverse falls short           *)
(* (GeneratedIsSighted).                                                   *)
(***************************************************************************)
EXTENDS MCRepair, FiniteSetTheorems, SequenceTheorems, WellFoundedInduction, TLAPS

At(c, places) == call[c].at \in places
Sound(a) == a \in Approvals /\ a.on.ok

Working == \A c \in Clients : ~At(c, {"idle"}) => call[c].repair \in Repairs /\ call[c].seen \in Contracts
Approving == \A c \in Clients : At(c, {"approving"}) => call[c].on \in Reports /\ call[c].on.ok
Approved == \A r \in Repairs : repair[r].approval \in OrNone({a \in Approvals : a.on.ok})
Signing == \A c \in Clients : At(c, {"signing"}) => Sound(repair[call[c].repair].approval)
Sealed == \A c \in Clients : At(c, {"sealing"}) => call[c].seal \in Payloads /\ Sound(call[c].seal.approval)
Signed == \A r \in Repairs : repair[r].signature \in OrNone({p \in Payloads : Sound(p.approval)})

Good(seal, inForce) == seal = inForce /\ seal \in Payloads /\ Sound(seal.approval)
Passing(report) == report \in Reports /\ report.ok
Cleared == {"applying", "promoting", "contract", "profiles", "tissue"}
Checked == \A c \in Clients :
  /\ At(c, {"status", "report"} \cup Cleared) => Good(call[c].seal, call[c].inForce)
  /\ At(c, Cleared) => Passing(call[c].on)
Ready == \A c \in Clients :
  At(c, {"promoting", "contract", "profiles", "tissue"}) => call[c].new \in Artifacts
Recorded == \A d \in deployments : Good(d.seal, d.inForce) /\ Passing(d.on)

GateInv == /\ TypeOK
           /\ Working /\ Approving /\ Approved /\ Signing /\ Sealed /\ Signed
           /\ Checked /\ Ready /\ Recorded
-----------------------------------------------------------------------------
LEMMA IdleTyped == Idle \in CallStates
  BY DEF Idle, CallStates, Places, OrNone

LEMMA InitGateInv == Init => GateInv
<1> SUFFICES ASSUME Init PROVE GateInv
  OBVIOUS
<1> USE DEF Init
<1>1. TypeOK
  <2>1. Unborn \in Candidates
    BY DEF Unborn, Candidates, Statuses, OrNone
  <2>2. /\ contract \in Contracts /\ profiles \in Seq(Repairs)
        /\ tissue \in Tissues
    BY DEF Contracts, Tissues, OrNone
  <2> QED
    BY <2>1, <2>2, IdleTyped DEF TypeOK
<1>2. Working /\ Approving /\ Signing /\ Sealed /\ Checked /\ Ready
  BY DEF Working, Approving, Signing, Sealed, Checked, Cleared, Ready, At, Idle
<1>3. Approved /\ Signed /\ Recorded
  BY DEF Approved, Signed, Recorded, Unborn, OrNone
<1> QED
  BY <1>1, <1>2, <1>3 DEF GateInv

\* A call begins, at a place where nothing is known of it yet but what it has seen.
LEMMA BeginKeeps ==
  ASSUME GateInv, NEW c \in Clients, NEW r \in Repairs, NEW k \in Kinds,
         NEW at \in {"replaying", "approving", "signing", "checking"}, Begin(c, k, at, r),
         at = "approving" => Passed(r),
         at = "signing" => repair[r].approval # None,
         UNCHANGED <<artifacts, repair, signed, deployments>>, overlapped' \in BOOLEAN
  PROVE  GateInv'
<1> USE DEF GateInv
<1>1. /\ call' = [call EXCEPT ![c].at = at, ![c].repair = r, ![c].id = calls[k] + 1,
                              ![c].seen = contract, ![c].on = repair[r].report]
      /\ call'[c].at = at /\ call'[c].repair = r /\ call'[c].seen = contract
      /\ call'[c].on = repair[r].report
      /\ \A d \in Clients \ {c} : call'[d] = call[d]
  BY DEF Begin, TypeOK
<1>2. TypeOK'
  <2>1. repair[r].report \in OrNone(Reports) /\ contract \in Contracts /\ calls[k] + 1 \in Nat
    BY DEF TypeOK, Candidates
  <2> at \in Places /\ r \in OrNone(Repairs) /\ contract \in OrNone(Contracts)
    BY <2>1 DEF Places, OrNone
  <2>2. call'[c] \in CallStates
    <3>1. call'[c] = [call[c] EXCEPT !.at = at, !.repair = r, !.id = calls[k] + 1,
                                    !.seen = contract, !.on = repair[r].report]
      BY <1>1 DEF TypeOK
    <3> QED
      BY <2>1, <3>1 DEF TypeOK, CallStates
  <2>3. call' \in [Clients -> CallStates]
    BY <1>1, <2>2 DEF TypeOK
  <2>4. calls' \in [Kinds -> Nat]
    BY DEF TypeOK, Begin
  <2> QED
    BY <2>3, <2>4 DEF TypeOK, artifacts
<1>3. Working'
  BY <1>1 DEF Working, At, TypeOK, CallStates
<1>4. Approving'
  <2>1. at = "approving" => repair[r].report \in Reports /\ repair[r].report.ok
    BY DEF Passed, TypeOK, Candidates, OrNone
  <2> QED
    BY <1>1, <2>1 DEF Approving, At
<1>5. Approved' /\ Signed' /\ Recorded'
  BY DEF Approved, Signed, Recorded
<1>6. Signing'
  <2>1. at = "signing" => Sound(repair[r].approval)
    BY DEF Approved, OrNone, Sound
  <2> QED
    BY <1>1, <2>1 DEF Signing, At
<1>7. Sealed' /\ Checked' /\ Ready'
  BY <1>1 DEF Sealed, Checked, Cleared, Ready, At
<1> QED
  BY <1>2, <1>3, <1>4, <1>5, <1>6, <1>7

\* A call ends, or fails.
LEMMA CallEnds ==
  ASSUME GateInv, NEW c \in Clients, call' = [call EXCEPT ![c] = Idle]
  PROVE  /\ call' \in [Clients -> CallStates]
         /\ Working' /\ Approving' /\ Sealed'
         /\ Checked' /\ Ready'
         /\ \A d \in Clients : At(d, {"signing"})' => d # c /\ At(d, {"signing"}) /\ call'[d] = call[d]
<1> USE DEF GateInv
<1>1. call'[c] = Idle /\ call'[c].at = "idle" /\ \A d \in Clients \ {c} : call'[d] = call[d]
  BY DEF TypeOK, Idle
<1>2. Idle \in CallStates
  BY IdleTyped
<1>3. Working' /\ Approving' /\ Sealed' /\ Checked' /\ Ready'
  BY <1>1 DEF Working, Approving, Sealed, Checked, Cleared, Ready, At
<1> QED
  BY <1>1, <1>2, <1>3 DEF TypeOK, At

\* What a verification, an approval and a signature write.
LEMMA VerifyWriteKeeps ==
  ASSUME GateInv, NEW c \in Clients, VerifyWrite(c)
  PROVE  GateInv'
<1> USE DEF GateInv
<1> DEFINE r == call[c].repair
<1>0. r \in Repairs /\ call[c].seen \in Contracts /\ call[c].id \in Nat
  BY DEF VerifyWrite, Working, At, TypeOK, CallStates
<1>1. PICK ok \in BOOLEAN : repair' = [repair EXCEPT
         ![r].report = [id |-> call[c].id, ok |-> ok, of |-> call[c].seen],
         ![r].status = Verdict(ok)]
  BY DEF VerifyWrite
<1>2. /\ repair' \in [Repairs -> Candidates]
      /\ \A s \in Repairs : /\ repair'[s].approval = repair[s].approval
                            /\ repair'[s].signature = repair[s].signature
  <2>1. [id |-> call[c].id, ok |-> ok, of |-> call[c].seen] \in OrNone(Reports)
    BY <1>0 DEF Reports, OrNone
  <2>2. Verdict(ok) \in Statuses
    BY DEF Verdict, Statuses
  <2> QED
    BY <1>0, <1>1, <2>1, <2>2 DEF TypeOK, Candidates
<1>3. /\ call' \in [Clients -> CallStates]
      /\ Working' /\ Approving' /\ Sealed' /\ Checked' /\ Ready'
      /\ \A d \in Clients : At(d, {"signing"})' => At(d, {"signing"}) /\ call'[d] = call[d]
  BY CallEnds DEF VerifyWrite
<1>4. TypeOK'
  BY <1>2, <1>3 DEF TypeOK, VerifyWrite, artifacts
<1>5. Approved' /\ Signed' /\ Recorded'
  BY <1>2 DEF Approved, Signed, Recorded, VerifyWrite
<1>6. Signing'
  BY <1>2, <1>3 DEF Signing, Working, At
<1> QED
  BY <1>3, <1>4, <1>5, <1>6

LEMMA ApproveWriteKeeps ==
  ASSUME GateInv, NEW c \in Clients, ApproveWrite(c)
  PROVE  GateInv'
<1> USE DEF GateInv
<1> DEFINE r == call[c].repair
           a == [id |-> call[c].id, on |-> call[c].on]
<1>0. r \in Repairs /\ Sound(a)
  BY DEF ApproveWrite, Working, Approving, At, TypeOK, CallStates, Sound, Approvals
<1>1. /\ repair' \in [Repairs -> Candidates]
      /\ repair'[r].approval = a /\ repair'[r].signature = None
      /\ \A s \in Repairs \ {r} : repair'[s] = repair[s]
  <2>1. a \in OrNone(Approvals) /\ None \in OrNone(Payloads) /\ "approved" \in Statuses
    BY <1>0 DEF Sound, OrNone, Statuses
  <2>2. repair' = [repair EXCEPT ![r].approval = a, ![r].status = "approved", ![r].signature = None]
    BY DEF ApproveWrite
  <2> QED
    BY <1>0, <2>1, <2>2 DEF TypeOK, Candidates
<1>2. /\ call' \in [Clients -> CallStates]
      /\ Working' /\ Approving' /\ Sealed' /\ Checked' /\ Ready'
      /\ \A d \in Clients : At(d, {"signing"})' => At(d, {"signing"}) /\ call'[d] = call[d]
  BY CallEnds DEF ApproveWrite
<1>3. TypeOK'
  BY <1>1, <1>2 DEF TypeOK, ApproveWrite, artifacts
<1>4. Approved'
  BY <1>0, <1>1 DEF Approved, OrNone, Sound
<1>5. Signed' /\ Recorded'
  BY <1>1 DEF Signed, Recorded, OrNone, ApproveWrite
<1>6. Signing'
  BY <1>0, <1>1, <1>2 DEF Signing, Working, At
<1> QED
  BY <1>2, <1>3, <1>4, <1>5, <1>6

LEMMA SignHashKeeps ==
  ASSUME GateInv, NEW c \in Clients, SignHash(c)
  PROVE  GateInv'
<1> USE DEF GateInv
<1> DEFINE r == call[c].repair
<1>0. r \in Repairs /\ Sound(repair[r].approval) /\ Payload(r) \in Payloads
  BY DEF SignHash, Working, Signing, At, TypeOK, Candidates, Payload, Payloads
<1>1. /\ call' \in [Clients -> CallStates]
      /\ call'[c].at = "sealing" /\ call'[c].seal = Payload(r)
      /\ call'[c].repair = r /\ call'[c].seen = call[c].seen
      /\ \A d \in Clients \ {c} : call'[d] = call[d]
  <2>1. Payload(r) \in OrNone(Payloads) /\ "sealing" \in Places
    BY <1>0 DEF OrNone, Places
  <2>2. call' = [call EXCEPT ![c].at = "sealing", ![c].seal = Payload(r)]
    BY DEF SignHash
  <2> QED
    BY <2>1, <2>2 DEF TypeOK, CallStates
<1>2. TypeOK' /\ Approved' /\ Signed' /\ Recorded'
  BY <1>1 DEF TypeOK, Approved, Signed, Recorded, SignHash, artifacts
<1>3. Working'
  BY <1>1 DEF Working, At, SignHash
<1>4. Sealed'
  BY <1>0, <1>1 DEF Sealed, At, Payload
<1>5. Approving' /\ Signing' /\ Checked' /\ Ready'
  BY <1>1 DEF Approving, Signing, Checked, Cleared, Ready, At, SignHash
<1> QED
  BY <1>2, <1>3, <1>4, <1>5

LEMMA SignWriteKeeps ==
  ASSUME GateInv, NEW c \in Clients, SignWrite(c)
  PROVE  GateInv'
<1> USE DEF GateInv
<1> DEFINE r == call[c].repair
<1>0. r \in Repairs /\ call[c].seal \in Payloads /\ Sound(call[c].seal.approval)
  BY DEF SignWrite, Working, Sealed, At
<1>1. /\ repair' \in [Repairs -> Candidates]
      /\ repair'[r].signature = call[c].seal
      /\ \A s \in Repairs : repair'[s].approval = repair[s].approval
      /\ \A s \in Repairs \ {r} : repair'[s] = repair[s]
  <2>1. call[c].seal \in OrNone(Payloads) /\ "signed" \in Statuses
    BY <1>0 DEF OrNone, Statuses
  <2>2. repair' = [repair EXCEPT ![r].signature = call[c].seal, ![r].status = "signed"]
    BY DEF SignWrite
  <2> QED
    BY <1>0, <2>1, <2>2 DEF TypeOK, Candidates
<1>2. /\ call' \in [Clients -> CallStates]
      /\ Working' /\ Approving' /\ Sealed' /\ Checked' /\ Ready'
      /\ \A d \in Clients : At(d, {"signing"})' => At(d, {"signing"}) /\ call'[d] = call[d]
  BY CallEnds DEF SignWrite
<1>3. signed' \in [Repairs -> Nat]
  BY <1>0 DEF SignWrite, TypeOK
<1>4. TypeOK'
  BY <1>1, <1>2, <1>3 DEF TypeOK, SignWrite, artifacts
<1>5. Approved' /\ Recorded'
  BY <1>1 DEF Approved, Recorded, SignWrite
<1>6. Signed'
  BY <1>0, <1>1 DEF Signed, OrNone
<1>7. Signing'
  BY <1>1, <1>2 DEF Signing, Working, At
<1> QED
  BY <1>2, <1>4, <1>5, <1>6, <1>7

\* A test of deploy(): what it adds is known of the call that goes on.
LEMMA TestKeeps ==
  ASSUME GateInv, NEW c \in Clients, NEW at \in {"checking", "status", "report"},
         NEW passes \in BOOLEAN, NEW next \in CallStates, Test(c, at, passes, next),
         passes => /\ next.at \in {"status", "report", "applying"}
                   /\ next.repair = call[c].repair /\ next.seen = call[c].seen
                   /\ Good(next.seal, next.inForce)
                   /\ next.at = "applying" => Passing(next.on)
  PROVE  GateInv'
<1> USE DEF GateInv
<1>1. CASE ~passes
  <2>1. call' = [call EXCEPT ![c] = Idle]
    BY <1>1 DEF Test
  <2>2. /\ call' \in [Clients -> CallStates]
        /\ Working' /\ Approving' /\ Sealed' /\ Checked' /\ Ready'
        /\ \A d \in Clients : At(d, {"signing"})' => At(d, {"signing"}) /\ call'[d] = call[d]
    BY <2>1, CallEnds
  <2>3. TypeOK' /\ Approved' /\ Signed' /\ Recorded'
    BY <2>2 DEF TypeOK, Approved, Signed, Recorded, Test, artifacts
  <2>4. Signing'
    BY <2>2 DEF Signing, Test, At
  <2> QED
    BY <2>2, <2>3, <2>4
<1>2. CASE passes
  <2>1. /\ call' \in [Clients -> CallStates]
        /\ call'[c] = next /\ \A d \in Clients \ {c} : call'[d] = call[d]
    BY <1>2 DEF Test, TypeOK
  <2>2. TypeOK' /\ Approved' /\ Signed' /\ Recorded'
    BY <2>1 DEF TypeOK, Approved, Signed, Recorded, Test, artifacts
  <2>3. Working'
    BY <1>2, <2>1 DEF Working, At, Test
  <2>4. Checked'
    BY <1>2, <2>1 DEF Checked, Cleared, At
  <2>5. Approving' /\ Signing' /\ Sealed' /\ Ready'
    BY <1>2, <2>1 DEF Approving, Signing, Sealed, Ready, At, Test
  <2> QED
    BY <2>2, <2>3, <2>4, <2>5
<1> QED
  BY <1>1, <1>2

\* The signature binds what is in force, and was given upon an approval (Signed).
LEMMA CheckSignatureKeeps ==
  ASSUME GateInv, NEW c \in Clients, CheckSignature(c)
  PROVE  GateInv'
<1> DEFINE r == call[c].repair
           next == [call[c] EXCEPT !.at = "status", !.seal = repair[r].signature, !.inForce = Payload(r)]
<1>1. Test(c, "checking", SignatureValid(r), next)
  BY DEF CheckSignature
<1>2. /\ r \in Repairs /\ repair[r] \in Candidates /\ call[c] \in CallStates
      /\ repair[r].signature \in OrNone({p \in Payloads : Sound(p.approval)})
  BY <1>1 DEF GateInv, Working, At, TypeOK, Signed, Test
<1>3. Payload(r) \in OrNone(Payloads) /\ repair[r].signature \in OrNone(Payloads) /\ "status" \in Places
  BY <1>2 DEF Candidates, Payload, Payloads, OrNone, Places
<1>4. /\ next \in CallStates /\ next.at = "status" /\ next.repair = r /\ next.seen = call[c].seen
      /\ next.seal = repair[r].signature /\ next.inForce = Payload(r)
  BY <1>2, <1>3 DEF CallStates
<1>5. SignatureValid(r) => Good(next.seal, next.inForce)
  BY <1>2, <1>4 DEF SignatureValid, Good, OrNone
<1>6. SignatureValid(r) \in BOOLEAN
  BY DEF SignatureValid
<1> HIDE DEF next
<1> QED
  BY <1>1, <1>4, <1>5, <1>6, TestKeeps

LEMMA CheckStatusKeeps ==
  ASSUME GateInv, NEW c \in Clients, CheckStatus(c)
  PROVE  GateInv'
<1> DEFINE signedNow == repair[call[c].repair].status = "signed"
           next == [call[c] EXCEPT !.at = "report"]
<1>1. Test(c, "status", signedNow, next)
  BY DEF CheckStatus
<1>2. call[c] \in CallStates /\ Good(call[c].seal, call[c].inForce)
  BY <1>1 DEF GateInv, Checked, At, TypeOK, Test
<1>3. /\ next \in CallStates /\ next.at = "report" /\ next.repair = call[c].repair
      /\ next.seen = call[c].seen /\ next.seal = call[c].seal /\ next.inForce = call[c].inForce
  BY <1>2 DEF CallStates, Places
<1>4. signedNow \in BOOLEAN
  OBVIOUS
<1> HIDE DEF next, signedNow
<1> QED
  BY <1>1, <1>2, <1>3, <1>4, TestKeeps

LEMMA CheckReportKeeps ==
  ASSUME GateInv, NEW c \in Clients, CheckReport(c)
  PROVE  GateInv'
<1> DEFINE r == call[c].repair
           next == [call[c] EXCEPT !.at = "applying", !.on = repair[r].report]
<1>1. Test(c, "report", Deployable(r), next)
  BY DEF CheckReport
<1>2. /\ call[c] \in CallStates /\ Good(call[c].seal, call[c].inForce)
      /\ r \in Repairs /\ repair[r].report \in OrNone(Reports)
  BY <1>1 DEF GateInv, Checked, Working, At, TypeOK, Candidates, Test
<1>3. /\ next \in CallStates /\ next.at = "applying" /\ next.repair = r /\ next.on = repair[r].report
      /\ next.seen = call[c].seen /\ next.seal = call[c].seal /\ next.inForce = call[c].inForce
  BY <1>2 DEF CallStates, Places
<1>4. Deployable(r) \in BOOLEAN /\ (Deployable(r) => Passing(next.on))
  BY <1>2, <1>3 DEF Deployable, Passed, Passing, OrNone
<1> HIDE DEF next
<1> QED
  BY <1>1, <1>2, <1>3, <1>4, TestKeeps

\* A step from one place of a deployment to the next, that leaves the candidate's
\* approval and signature alone.
LEMMA DeployMoves ==
  ASSUME GateInv, NEW c \in Clients,
         NEW at \in {"promoting", "contract", "profiles", "tissue"}, NEW new \in Artifacts,
         At(c, {"applying", "promoting", "contract", "profiles"}),
         call' = [call EXCEPT ![c].at = at, ![c].new = new],
         repair' \in [Repairs -> Candidates],
         \A s \in Repairs : /\ repair'[s].approval = repair[s].approval
                            /\ repair'[s].signature = repair[s].signature,
         contract' \in Contracts, profiles' \in Seq(Repairs),
         UNCHANGED <<tissue, calls, signed, deployments, overlapped>>
  PROVE  GateInv'
<1> USE DEF GateInv
<1>1. /\ call' \in [Clients -> CallStates]
      /\ call'[c].at = at /\ call'[c].repair = call[c].repair /\ call'[c].seen = call[c].seen
      /\ call'[c].seal = call[c].seal /\ call'[c].inForce = call[c].inForce /\ call'[c].on = call[c].on
      /\ call'[c].new = new /\ \A d \in Clients \ {c} : call'[d] = call[d]
  <2>1. new \in OrNone(Artifacts) /\ at \in Places
    BY DEF OrNone, Places
  <2> QED
    BY <2>1 DEF TypeOK, CallStates
<1>2. TypeOK'
  BY <1>1 DEF TypeOK
<1>3. Approved' /\ Signed' /\ Recorded'
  BY DEF Approved, Signed, Recorded
<1>4. Working' /\ Approving' /\ Sealed' /\ Checked' /\ Ready'
  BY <1>1 DEF Working, Approving, Sealed, Checked, Cleared, Ready, At
<1>5. Signing'
  BY <1>1 DEF Signing, Working, At
<1> QED
  BY <1>2, <1>3, <1>4, <1>5

\* The same for a step that leaves what was built alone.
LEMMA DeployAdvances ==
  ASSUME GateInv, NEW c \in Clients, NEW at \in {"contract", "profiles", "tissue"},
         At(c, {"promoting", "contract", "profiles"}),
         call' = [call EXCEPT ![c].at = at],
         repair' \in [Repairs -> Candidates],
         \A s \in Repairs : /\ repair'[s].approval = repair[s].approval
                            /\ repair'[s].signature = repair[s].signature,
         contract' \in Contracts, profiles' \in Seq(Repairs),
         UNCHANGED <<tissue, calls, signed, deployments, overlapped>>
  PROVE  GateInv'
<1>1. call[c].new \in Artifacts
  BY DEF GateInv, Ready, At
<1>2. call' = [call EXCEPT ![c].at = at, ![c].new = call[c].new]
  BY DEF GateInv, TypeOK, CallStates
<1>3. At(c, {"applying", "promoting", "contract", "profiles"})
      /\ at \in {"promoting", "contract", "profiles", "tissue"}
  BY DEF At
<1> DEFINE new == call[c].new
<1>4. new \in Artifacts /\ call' = [call EXCEPT ![c].at = at, ![c].new = new]
  BY <1>1, <1>2
<1> HIDE DEF new
<1> QED
  BY <1>3, <1>4, DeployMoves

LEMMA DeployApplyKeeps ==
  ASSUME GateInv, NEW c \in Clients, DeployApply(c)
  PROVE  GateInv'
<1> DEFINE r == call[c].repair
           v == NextVersion(repair[r].base)
<1>1. /\ r \in Repairs /\ call[c].seen.form \in Seq(Repairs) /\ profiles \in Seq(Repairs)
      /\ v \in Nat
  BY DEF GateInv, Working, At, DeployApply, TypeOK, Candidates, Contracts, NextVersion
<1>2. [version |-> v, form |-> Append(call[c].seen.form, r)] \in Contracts
  BY <1>1 DEF Contracts
<1>3. [version |-> v, last |-> r] \in Tissues
  BY <1>1 DEF Tissues, OrNone
<1>4. Append(profiles, r) \in Seq(Repairs)
  BY <1>1
<1>5. Built(c, profiles) \in Artifacts
  BY <1>2, <1>3, <1>4 DEF Built, Patched, Artifacts
<1>6. repair' = repair /\ repair \in [Repairs -> Candidates] /\ contract \in Contracts
  BY DEF GateInv, TypeOK, DeployApply
<1>7. /\ At(c, {"applying", "promoting", "contract", "profiles"})
      /\ call' = [call EXCEPT ![c].at = "promoting", ![c].new = Built(c, profiles)]
      /\ UNCHANGED <<tissue, calls, signed, deployments, overlapped>>
      /\ contract' = contract /\ profiles' = profiles
  BY DEF DeployApply, At, artifacts
<1>8. /\ contract' \in Contracts /\ profiles' \in Seq(Repairs) /\ repair' \in [Repairs -> Candidates]
      /\ \A s \in Repairs : /\ repair'[s].approval = repair[s].approval
                            /\ repair'[s].signature = repair[s].signature
  BY <1>1, <1>6, <1>7
<1> DEFINE new == Built(c, profiles)
<1> HIDE DEF v, r, new
<1> QED
  BY <1>5, <1>7, <1>8, DeployMoves DEF new

LEMMA DeployFailKeeps ==
  ASSUME GateInv, NEW c \in Clients, DeployFail(c)
  PROVE  GateInv'
<1>1. /\ call' \in [Clients -> CallStates]
      /\ Working' /\ Approving' /\ Sealed' /\ Checked' /\ Ready'
      /\ \A d \in Clients : At(d, {"signing"})' => At(d, {"signing"}) /\ call'[d] = call[d]
  BY CallEnds DEF DeployFail
<1>2. TypeOK' /\ Approved' /\ Signed' /\ Recorded'
  BY <1>1 DEF GateInv, TypeOK, Approved, Signed, Recorded, DeployFail, artifacts
<1>3. Signing'
  BY <1>1 DEF GateInv, Signing, DeployFail, At
<1> QED
  BY <1>1, <1>2, <1>3 DEF GateInv

LEMMA DeployDoneKeeps ==
  ASSUME GateInv, NEW c \in Clients, DeployDone(c)
  PROVE  GateInv'
<1>1. /\ repair' \in [Repairs -> Candidates]
      /\ \A s \in Repairs : /\ repair'[s].approval = repair[s].approval
                            /\ repair'[s].signature = repair[s].signature
  BY DEF GateInv, TypeOK, Candidates, Statuses, DeployDone, MarkDeployed
<1>2. contract \in Contracts /\ profiles \in Seq(Repairs)
  BY DEF GateInv, TypeOK
<1> QED
  BY <1>1, <1>2, DeployAdvances DEF DeployDone, At, artifacts

LEMMA RegisterKeeps ==
  ASSUME GateInv, NEW c \in Clients, RegisterContract(c) \/ RegisterProfiles(c)
  PROVE  GateInv'
<1>1. /\ call[c].new.contract \in Contracts /\ call[c].new.profiles \in Seq(Repairs)
      /\ contract \in Contracts /\ profiles \in Seq(Repairs) /\ repair \in [Repairs -> Candidates]
  BY DEF GateInv, TypeOK, Ready, At, Artifacts, RegisterContract, RegisterProfiles
<1>2. CASE RegisterContract(c)
  BY <1>1, <1>2, DeployAdvances DEF RegisterContract, At
<1>3. CASE RegisterProfiles(c)
  BY <1>1, <1>3, DeployAdvances DEF RegisterProfiles, At
<1> QED
  BY <1>2, <1>3

LEMMA RegisterTissueKeeps ==
  ASSUME GateInv, NEW c \in Clients, RegisterTissue(c)
  PROVE  GateInv'
<1> USE DEF GateInv
<1>1. /\ call' \in [Clients -> CallStates]
      /\ Working' /\ Approving' /\ Sealed' /\ Checked' /\ Ready'
      /\ \A d \in Clients : At(d, {"signing"})' => At(d, {"signing"}) /\ call'[d] = call[d]
  BY CallEnds DEF RegisterTissue
<1> DEFINE d == [repair |-> call[c].repair, from |-> call[c].seen, to |-> call[c].new.contract,
                 seal |-> call[c].seal, inForce |-> call[c].inForce, on |-> call[c].on]
<1>2. Good(d.seal, d.inForce) /\ Passing(d.on) /\ call[c].new \in Artifacts
  BY DEF RegisterTissue, Checked, Cleared, Ready, At
<1>3. call[c].repair \in Repairs /\ call[c].seen \in Contracts
  BY DEF RegisterTissue, Working, At
<1>4. d \in [repair : Repairs, from : Contracts, to : Contracts, seal : Payloads, inForce : Payloads,
           on : Reports]
  BY <1>2, <1>3 DEF Good, Passing, Artifacts
<1>5. TypeOK'
  BY <1>1, <1>2, <1>4 DEF TypeOK, RegisterTissue, Artifacts
<1>6. Approved' /\ Signed'
  BY DEF Approved, Signed, RegisterTissue
<1>7. Recorded'
  BY <1>2 DEF Recorded, RegisterTissue
<1>8. Signing'
  BY <1>1 DEF Signing, RegisterTissue, At
<1> QED
  BY <1>1, <1>5, <1>6, <1>7, <1>8

LEMMA ProposeKeeps ==
  ASSUME GateInv, NEW r \in Repairs, Propose(r)
  PROVE  GateInv'
<1> USE DEF GateInv
<1>1. /\ repair' \in [Repairs -> Candidates]
      /\ \A s \in Repairs : /\ repair'[s].approval = repair[s].approval
                            /\ repair'[s].signature = repair[s].signature
  BY DEF Propose, TypeOK, Candidates, Contracts, Statuses
<1>2. TypeOK'
  BY <1>1 DEF TypeOK, Propose, artifacts
<1>3. Approved' /\ Signed' /\ Recorded'
  BY <1>1 DEF Approved, Signed, Recorded, Propose
<1>4. Working' /\ Approving' /\ Sealed' /\ Checked' /\ Ready'
  BY DEF Working, Approving, Sealed, Checked, Cleared, Ready, At, Propose
<1>5. Signing'
  BY <1>1 DEF Signing, Working, At, Propose
<1> QED
  BY <1>2, <1>3, <1>4, <1>5

LEMMA StepKeepsGateInv == GateInv /\ [Next]_vars => GateInv'
<1> SUFFICES ASSUME GateInv, [Next]_vars PROVE GateInv'
  OBVIOUS
<1>1. CASE UNCHANGED vars
  BY <1>1 DEF GateInv, TypeOK, Working, Approving, Approved, Signing, Sealed, Signed, Checked,
              Cleared, Ready, Recorded, At, vars, artifacts
<1>2. ASSUME NEW c \in Clients, NEW r \in Repairs,
             VerifyRead(c, r) \/ ApproveCheck(c, r) \/ SignCheck(c, r) \/ DeployRead(c, r)
      PROVE  GateInv'
  <2>1. overlapped' \in BOOLEAN
    BY <1>2 DEF GateInv, TypeOK, VerifyRead, ApproveCheck, SignCheck, DeployRead
  <2>2. CASE VerifyRead(c, r)
    BY <2>1, <2>2, BeginKeeps DEF VerifyRead, Kinds, artifacts
  <2>3. CASE ApproveCheck(c, r)
    BY <2>1, <2>3, BeginKeeps DEF ApproveCheck, Kinds, artifacts
  <2>4. CASE SignCheck(c, r)
    BY <2>1, <2>4, BeginKeeps DEF SignCheck, Kinds, artifacts
  <2>5. CASE DeployRead(c, r)
    BY <2>1, <2>5, BeginKeeps DEF DeployRead, Kinds, artifacts
  <2> QED
    BY <1>2, <2>2, <2>3, <2>4, <2>5
<1>3. ASSUME NEW c \in Clients, Proceed(c) PROVE GateInv'
  BY <1>3, VerifyWriteKeeps, ApproveWriteKeeps, SignHashKeeps, SignWriteKeeps, CheckSignatureKeeps,
     CheckStatusKeeps, CheckReportKeeps, DeployApplyKeeps, DeployFailKeeps, DeployDoneKeeps, RegisterKeeps, RegisterTissueKeeps
  DEF Proceed
<1>4. ASSUME NEW r \in Repairs, Propose(r) PROVE GateInv'
  BY <1>4, ProposeKeeps
<1> QED
  BY <1>1, <1>2, <1>3, <1>4 DEF Next

\* The inductive invariant: the gates' evidence travels with the calls that carry it.
THEOREM RepairInvariant == Spec => []GateInv
<1> QED
  BY InitGateInv, StepKeepsGateInv, PTL DEF Spec

\* Every variable keeps its type.
THEOREM RepairTypeCorrect == Spec => []TypeOK
<1>1. GateInv => TypeOK
  BY DEF GateInv
<1> QED
  BY <1>1, RepairInvariant, PTL

\* Nothing is deployed but under a signature that binds the report and approval in force
\* when deploy() looked, the approval given upon a passing report, and after a look at a
\* report that passed, however the calls of any clients overlap.
THEOREM NothingPastTheGates == Spec => []Gated
<1>1. GateInv => Gated
  BY DEF GateInv, Recorded, Good, Passing, Sound, Gated
<1> QED
  BY <1>1, RepairInvariant, PTL
-----------------------------------------------------------------------------
(* A signature buys one deployment *)

\* The patches of a form are paid for, with one signature to spare if the candidate is signed.
Bought(form, candidates, sg) == \A r \in Repairs :
  /\ Count(form, r) <= sg[r]
  /\ candidates[r].status = "signed" => Count(form, r) + 1 <= sg[r]

Building == {"promoting", "contract", "profiles", "tissue"}

\* What a deployment has built is what it has read, with its candidate's patches.
Assembled == \A c \in Clients : At(c, Building) =>
  /\ call[c].new.contract.form = Append(call[c].seen.form, call[c].repair)
  /\ call[c].new.tissue.version = call[c].new.contract.version
  /\ call[c].new.tissue.last = call[c].repair

\* The signature deploy() has checked is not used up until the candidate is marked; from
\* then on what it has built is paid for.
BoughtInv ==
  /\ Bought(contract.form, repair, signed)
  /\ \A c \in Clients :
       /\ ~At(c, {"idle"}) => Bought(call[c].seen.form, repair, signed)
       /\ At(c, {"report", "applying", "promoting"}) =>
            Count(call[c].seen.form, call[c].repair) + 1 <= signed[call[c].repair]
       /\ At(c, {"contract", "profiles", "tissue"}) =>
            Bought(call[c].new.contract.form, repair, signed)

LEMMA CountAppend ==
  ASSUME NEW s \in Seq(Repairs), NEW r \in Repairs, NEW q \in Repairs
  PROVE  /\ Count(s, q) \in Nat
         /\ Count(Append(s, r), q) = IF q = r THEN Count(s, q) + 1 ELSE Count(s, q)
<1> DEFINE I == {i \in DOMAIN s : s[i] = q}
           n == Len(s) + 1
           J == {i \in DOMAIN Append(s, r) : Append(s, r)[i] = q}
<1>1. /\ Len(s) \in Nat /\ DOMAIN s = 1..Len(s) /\ DOMAIN Append(s, r) = 1..n
      /\ Append(s, r)[n] = r /\ \A i \in 1..Len(s) : Append(s, r)[i] = s[i]
  OBVIOUS
<1>2. IsFiniteSet(I) /\ Cardinality(I) \in Nat
  <2>1. IsFiniteSet(1..Len(s))
    BY <1>1, FS_Interval
  <2>2. IsFiniteSet(I)
    BY <1>1, <2>1, FS_Subset
  <2> QED
    BY <2>2, FS_CardinalityType
<1>3. CASE q = r
  <2>1. J = I \cup {n} /\ n \notin I
    BY <1>1, <1>3
  <2>2. Cardinality(J) = Cardinality(I) + 1
    <3> HIDE DEF I, J, n
    <3> QED
      BY <1>2, <2>1, FS_AddElement
  <2> QED
    BY <1>2, <1>3, <2>2 DEF Count
<1>4. CASE q # r
  <2>1. J = I
    BY <1>1, <1>4
  <2> QED
    BY <1>2, <1>4, <2>1 DEF Count
<1> QED
  BY <1>3, <1>4

LEMMA CountEmpty ==
  ASSUME NEW q PROVE Count(<<>>, q) = 0
<1>1. {i \in DOMAIN <<>> : <<>>[i] = q} = {}
  OBVIOUS
<1> QED
  BY <1>1, FS_EmptySet DEF Count

\* A candidate becomes signed only with a signature more.
LEMMA StepPays ==
  ASSUME GateInv, [Next]_vars, NEW r \in Repairs
  PROVE  /\ signed'[r] >= signed[r]
         /\ repair'[r].status = "signed" => repair[r].status = "signed" \/ signed'[r] >= signed[r] + 1
<1>0. /\ repair \in [Repairs -> Candidates] /\ signed \in [Repairs -> Nat]
      /\ \A c \in Clients : ~At(c, {"idle"}) => call[c].repair \in Repairs
  BY DEF GateInv, TypeOK, Working
<1>1. CASE UNCHANGED vars
  BY <1>0, <1>1 DEF vars
<1>2. ASSUME NEW c \in Clients, NEW q \in Repairs,
             VerifyRead(c, q) \/ ApproveCheck(c, q) \/ SignCheck(c, q) \/ DeployRead(c, q)
      PROVE  repair' = repair /\ signed' = signed
  BY <1>2 DEF VerifyRead, ApproveCheck, SignCheck, DeployRead
<1>3. ASSUME NEW q \in Repairs, Propose(q)
      PROVE  signed' = signed /\ (repair'[r].status = "signed" => repair[r].status = "signed")
  BY <1>0, <1>3 DEF Propose, Candidates
<1>4. ASSUME NEW c \in Clients, VerifyWrite(c) \/ ApproveWrite(c)
      PROVE  signed' = signed /\ (repair'[r].status = "signed" => repair[r].status = "signed")
  <2> DEFINE q == call[c].repair
  <2>1. q \in Repairs
    BY <1>0, <1>4 DEF VerifyWrite, ApproveWrite, At
  <2>2. CASE VerifyWrite(c)
    <3>1. PICK ok \in BOOLEAN : repair' = [repair EXCEPT
            ![q].report = [id |-> call[c].id, ok |-> ok, of |-> call[c].seen], ![q].status = Verdict(ok)]
      BY <2>2 DEF VerifyWrite
    <3>2. Verdict(ok) # "signed"
      BY DEF Verdict
    <3> QED
      BY <1>0, <2>1, <2>2, <3>1, <3>2 DEF VerifyWrite, Candidates
  <2>3. CASE ApproveWrite(c)
    <3>1. repair' = [repair EXCEPT ![q].approval = [id |-> call[c].id, on |-> call[c].on],
                                   ![q].status = "approved", ![q].signature = None]
      BY <2>3 DEF ApproveWrite
    <3> QED
      BY <1>0, <2>1, <2>3, <3>1 DEF ApproveWrite, Candidates
  <2> QED
    BY <1>4, <2>2, <2>3
<1>5. ASSUME NEW c \in Clients, SignWrite(c)
      PROVE  IF r = call[c].repair THEN signed'[r] = signed[r] + 1
             ELSE signed'[r] = signed[r] /\ repair'[r] = repair[r]
  <2> DEFINE q == call[c].repair
             written == [repair[q] EXCEPT !.signature = call[c].seal, !.status = "signed"]
  <2>1. q \in Repairs
    BY <1>0, <1>5 DEF SignWrite, At
  <2>2. repair' = [repair EXCEPT ![q] = written] /\ signed' = [signed EXCEPT ![q] = @ + 1]
    BY <1>0, <1>5, <2>1 DEF SignWrite
  <2> HIDE DEF q, written
  <2>3. IF r = q THEN signed'[r] = signed[r] + 1 ELSE signed'[r] = signed[r] /\ repair'[r] = repair[r]
    BY <1>0, <2>1, <2>2
  <2> QED
    BY <2>3 DEF q
<1>6. ASSUME NEW c \in Clients, DeployDone(c)
      PROVE  signed' = signed /\ (repair'[r].status = "signed" => repair[r].status = "signed")
  BY <1>0, <1>6 DEF DeployDone, MarkDeployed, Candidates, At
<1>7. ASSUME NEW c \in Clients,
             \/ SignHash(c) \/ CheckSignature(c) \/ CheckStatus(c) \/ CheckReport(c)
             \/ DeployApply(c) \/ DeployFail(c) \/ RegisterContract(c) \/ RegisterProfiles(c) \/ RegisterTissue(c)
      PROVE  repair' = repair /\ signed' = signed
  BY <1>7 DEF SignHash, CheckSignature, CheckStatus, CheckReport, Test, DeployApply, DeployFail, RegisterContract, RegisterProfiles,
              RegisterTissue
<1>8. signed[r] \in Nat
  BY <1>0
<1> QED
  BY <1>1, <1>2, <1>3, <1>4, <1>5, <1>6, <1>7, <1>8 DEF Next, Proceed

LEMMA BoughtStays ==
  ASSUME GateInv, GateInv', [Next]_vars, NEW f \in Seq(Repairs), Bought(f, repair, signed)
  PROVE  Bought(f, repair', signed')
<1> SUFFICES ASSUME NEW r \in Repairs
             PROVE  /\ Count(f, r) <= signed'[r]
                    /\ repair'[r].status = "signed" => Count(f, r) + 1 <= signed'[r]
  BY DEF Bought
<1>1. Count(f, r) \in Nat /\ signed[r] \in Nat /\ signed'[r] \in Nat
  BY CountAppend DEF GateInv, TypeOK
<1>2. /\ Count(f, r) <= signed[r]
      /\ repair[r].status = "signed" => Count(f, r) + 1 <= signed[r]
  BY DEF Bought
<1>3. /\ signed'[r] >= signed[r]
      /\ repair'[r].status = "signed" => repair[r].status = "signed" \/ signed'[r] >= signed[r] + 1
  BY StepPays
<1> QED
  BY <1>1, <1>2, <1>3

\* What a step may do to a call.
Unmoved(c) == /\ call'[c].repair = call[c].repair /\ call'[c].seen = call[c].seen
              /\ call'[c].seal = call[c].seal /\ call'[c].inForce = call[c].inForce
Begun(c) == /\ call[c].at = "idle" /\ call'[c].seen = contract
            /\ call'[c].at \in {"replaying", "approving", "signing", "checking"}
Tested(c) ==
  /\ \/ call[c].at = "checking" /\ call'[c].at = "status"
     \/ call[c].at = "status" /\ call'[c].at = "report" /\ repair[call[c].repair].status = "signed"
     \/ call[c].at = "report" /\ call'[c].at = "applying"
  /\ call'[c].repair = call[c].repair /\ call'[c].seen = call[c].seen
Advanced(c) ==
  \/ call[c].at = "promoting" /\ call'[c].at = "contract" /\ DeployDone(c)
  \/ call[c].at = "contract" /\ call'[c].at = "profiles" /\ RegisterContract(c)
  \/ call[c].at = "profiles" /\ call'[c].at = "tissue" /\ RegisterProfiles(c)

LEMMA TestedOrEnded ==
  ASSUME GateInv, NEW c \in Clients, CheckSignature(c) \/ CheckStatus(c) \/ CheckReport(c)
  PROVE  /\ call'[c] = Idle \/ Tested(c)
         /\ call[c].at \in {"checking", "status", "report"}
         /\ \A d \in Clients \ {c} : call'[d] = call[d]
         /\ UNCHANGED <<artifacts, repair, signed, deployments, overlapped>>
<1> DEFINE r == call[c].repair
<1>0. call \in [Clients -> CallStates] /\ call[c] \in CallStates
  BY DEF GateInv, TypeOK
<1>1. CASE CheckSignature(c)
  <2> DEFINE next == [call[c] EXCEPT !.at = "status", !.seal = repair[r].signature, !.inForce = Payload(r)]
  <2>1. Test(c, "checking", SignatureValid(r), next)
    BY <1>1 DEF CheckSignature
  <2>2. next.at = "status" /\ next.repair = r /\ next.seen = call[c].seen
    BY <1>0 DEF CallStates
  <2> HIDE DEF next, r
  <2> QED
    BY <1>0, <2>1, <2>2 DEF Test, Tested, r
<1>2. CASE CheckStatus(c)
  <2> DEFINE next == [call[c] EXCEPT !.at = "report"]
  <2>1. Test(c, "status", repair[r].status = "signed", next)
    BY <1>2 DEF CheckStatus
  <2>2. next.at = "report" /\ next.repair = r /\ next.seen = call[c].seen
    BY <1>0 DEF CallStates
  <2> HIDE DEF next, r
  <2> QED
    BY <1>0, <2>1, <2>2 DEF Test, Tested, r
<1>3. CASE CheckReport(c)
  <2> DEFINE next == [call[c] EXCEPT !.at = "applying", !.on = repair[r].report]
  <2>1. Test(c, "report", Deployable(r), next)
    BY <1>3 DEF CheckReport
  <2>2. next.at = "applying" /\ next.repair = r /\ next.seen = call[c].seen
    BY <1>0 DEF CallStates
  <2> HIDE DEF next, r
  <2> QED
    BY <1>0, <2>1, <2>2 DEF Test, Tested, r
<1> QED
  BY <1>1, <1>2, <1>3

LEMMA CallStep ==
  ASSUME GateInv, [Next]_vars, NEW c \in Clients
  PROVE  \/ call'[c] = call[c]
         \/ call'[c].at = "idle"
         \/ Begun(c)
         \/ call[c].at = "signing" /\ call'[c].at = "sealing" /\ call'[c].seen = call[c].seen
         \/ Tested(c) /\ repair' = repair /\ signed' = signed
         \/ /\ call[c].at = "applying" /\ call'[c].at = "promoting" /\ Unmoved(c)
            /\ call'[c].new = Built(c, profiles) /\ signed' = signed
         \/ Advanced(c) /\ Unmoved(c) /\ call'[c].new = call[c].new
<1>0. call \in [Clients -> CallStates]
  BY DEF GateInv, TypeOK
<1>1. CASE UNCHANGED vars
  BY <1>1 DEF vars
<1>2. ASSUME NEW d \in Clients, NEW q \in Repairs,
             VerifyRead(d, q) \/ ApproveCheck(d, q) \/ SignCheck(d, q) \/ DeployRead(d, q)
      PROVE  call'[c] = call[c] \/ Begun(c)
  BY <1>0, <1>2 DEF VerifyRead, ApproveCheck, SignCheck, DeployRead, Begin, Begun, CallStates
<1>3. ASSUME NEW q \in Repairs, Propose(q) PROVE call'[c] = call[c]
  BY <1>3 DEF Propose
<1>4. ASSUME NEW d \in Clients,
             VerifyWrite(d) \/ ApproveWrite(d) \/ SignWrite(d) \/ DeployFail(d) \/ RegisterTissue(d)
      PROVE  call'[c] = call[c] \/ call'[c].at = "idle"
  BY <1>0, <1>4 DEF VerifyWrite, ApproveWrite, SignWrite, DeployFail, RegisterTissue, Idle
<1>5. ASSUME NEW d \in Clients, SignHash(d)
      PROVE  \/ call'[c] = call[c]
             \/ call[c].at = "signing" /\ call'[c].at = "sealing" /\ call'[c].seen = call[c].seen
  BY <1>0, <1>5 DEF SignHash, CallStates
<1>6. ASSUME NEW d \in Clients, CheckSignature(d) \/ CheckStatus(d) \/ CheckReport(d)
      PROVE  \/ call'[c] = call[c] \/ call'[c].at = "idle"
             \/ Tested(c) /\ repair' = repair /\ signed' = signed
  BY <1>6, TestedOrEnded DEF Idle
<1>7. ASSUME NEW d \in Clients, DeployApply(d)
      PROVE  \/ call'[c] = call[c]
             \/ /\ call[c].at = "applying" /\ call'[c].at = "promoting" /\ Unmoved(c)
                /\ call'[c].new = Built(c, profiles) /\ signed' = signed
  BY <1>0, <1>7 DEF DeployApply, CallStates, Unmoved
<1>8. ASSUME NEW d \in Clients, DeployDone(d) \/ RegisterContract(d) \/ RegisterProfiles(d)
      PROVE  call'[c] = call[c] \/ (Advanced(c) /\ Unmoved(c) /\ call'[c].new = call[c].new)
  <2>1. CASE c = d
    <3>1. CASE DeployDone(d)
      <4>1. call' = [call EXCEPT ![d].at = "contract"] /\ call[d].at = "promoting"
        BY <3>1 DEF DeployDone
      <4> QED
        BY <1>0, <2>1, <3>1, <4>1 DEF CallStates, Unmoved, Advanced
    <3>2. CASE RegisterContract(d)
      <4>1. call' = [call EXCEPT ![d].at = "profiles"] /\ call[d].at = "contract"
        BY <3>2 DEF RegisterContract
      <4> QED
        BY <1>0, <2>1, <3>2, <4>1 DEF CallStates, Unmoved, Advanced
    <3>3. CASE RegisterProfiles(d)
      <4>1. call' = [call EXCEPT ![d].at = "tissue"] /\ call[d].at = "profiles"
        BY <3>3 DEF RegisterProfiles
      <4> QED
        BY <1>0, <2>1, <3>3, <4>1 DEF CallStates, Unmoved, Advanced
    <3> QED
      BY <1>8, <3>1, <3>2, <3>3
  <2>2. CASE c # d
    BY <1>0, <1>8, <2>2 DEF DeployDone, RegisterContract, RegisterProfiles
  <2> QED
    BY <2>1, <2>2
<1> QED
  BY <1>1, <1>2, <1>3, <1>4, <1>5, <1>6, <1>7, <1>8 DEF Next, Proceed

LEMMA StepKeepsAssembled ==
  ASSUME GateInv, Assembled, [Next]_vars
  PROVE  Assembled'
<1> SUFFICES ASSUME NEW c \in Clients, At(c, Building)'
             PROVE  /\ call'[c].new.contract.form = Append(call'[c].seen.form, call'[c].repair)
                    /\ call'[c].new.tissue.version = call'[c].new.contract.version
                    /\ call'[c].new.tissue.last = call'[c].repair
  BY DEF Assembled
<1>0. call'[c].at \in Building /\ (call[c].at \in Building =>
         /\ call[c].new.contract.form = Append(call[c].seen.form, call[c].repair)
         /\ call[c].new.tissue.version = call[c].new.contract.version
         /\ call[c].new.tissue.last = call[c].repair)
  BY DEF At, Assembled
<1>1. CASE call'[c] = call[c]
  BY <1>0, <1>1
<1>2. CASE call[c].at = "applying" /\ Unmoved(c) /\ call'[c].new = Built(c, profiles)
  BY <1>2 DEF Unmoved, Built, Patched
<1>3. CASE Advanced(c) /\ Unmoved(c) /\ call'[c].new = call[c].new
  BY <1>0, <1>3 DEF Unmoved, Advanced, Building
<1> QED
  BY <1>0, <1>1, <1>2, <1>3, CallStep DEF Building, Begun, Tested

LEMMA StepKeepsBought ==
  ASSUME GateInv, GateInv', Assembled, BoughtInv, [Next]_vars
  PROVE  BoughtInv'
<1>0. /\ contract.form \in Seq(Repairs)
      /\ \A c \in Clients : ~At(c, {"idle"}) => call[c].repair \in Repairs /\ call[c].seen.form \in Seq(Repairs)
      /\ \A c \in Clients : At(c, Building) => call[c].new.contract.form \in Seq(Repairs)
  BY DEF GateInv, TypeOK, Working, Ready, Building, Artifacts, Contracts, At
<1>1. Bought(contract'.form, repair', signed')
  <2>1. CASE contract' = contract
    BY <1>0, <2>1, BoughtStays DEF BoughtInv
  <2>2. ASSUME NEW c \in Clients, RegisterContract(c) PROVE Bought(contract'.form, repair', signed')
    <3>1. contract' = call[c].new.contract /\ At(c, {"contract", "profiles", "tissue"}) /\ At(c, Building)
      BY <2>2 DEF RegisterContract, At, Building
    <3> QED
      BY <1>0, <3>1, BoughtStays DEF BoughtInv
  <2>3. contract' = contract \/ \E c \in Clients : RegisterContract(c)
    BY DEF Next, Proceed, vars, artifacts, Propose, VerifyRead, ApproveCheck, SignCheck, DeployRead,
           VerifyWrite, ApproveWrite, SignHash, SignWrite, CheckSignature, CheckStatus, CheckReport,
           Test, DeployApply, DeployFail, DeployDone, RegisterProfiles, RegisterTissue
  <2> QED
    BY <2>1, <2>2, <2>3
<1>2. ASSUME NEW c \in Clients, call'[c].at # "idle"
      PROVE  Bought(call'[c].seen.form, repair', signed')
  <2>1. ASSUME call[c].at # "idle", call'[c].seen = call[c].seen
        PROVE  Bought(call'[c].seen.form, repair', signed')
    BY <1>0, <2>1, BoughtStays DEF BoughtInv, At
  <2>2. CASE Begun(c)
    BY <1>0, <2>2, BoughtStays DEF BoughtInv, Begun
  <2>3. Begun(c) \/ (call[c].at # "idle" /\ call'[c].seen = call[c].seen)
    BY <1>2, CallStep DEF Unmoved, Tested, Advanced
  <2> QED
    BY <2>1, <2>2, <2>3
<1>3. ASSUME NEW c \in Clients, call'[c].at \in {"report", "applying", "promoting"}
      PROVE  Count(call'[c].seen.form, call'[c].repair) + 1 <= signed'[call'[c].repair]
  <2> DEFINE r == call[c].repair
             s == call[c].seen.form
  <2>1. /\ call[c].at \in {"status", "report", "applying", "promoting"}
        /\ call'[c].repair = r /\ call'[c].seen = call[c].seen
        /\ call[c].at = "status" => repair[r].status = "signed"
    BY <1>3, CallStep DEF Unmoved, Begun, Tested, Advanced
  <2>2. r \in Repairs /\ s \in Seq(Repairs) /\ Bought(s, repair, signed)
    BY <1>0, <2>1 DEF At, BoughtInv
  <2>3. Count(s, r) + 1 <= signed[r]
    BY <2>1, <2>2 DEF BoughtInv, At, Bought
  <2>4. Count(s, r) \in Nat /\ signed[r] \in Nat /\ signed'[r] \in Nat /\ signed'[r] >= signed[r]
    BY <2>2, CountAppend, StepPays DEF GateInv, TypeOK
  <2>5. Count(s, r) + 1 <= signed'[r]
    <3> HIDE DEF s, r
    <3> QED
      BY <2>3, <2>4
  <2> QED
    BY <2>1, <2>5
<1>4. ASSUME NEW c \in Clients, call'[c].at \in {"contract", "profiles", "tissue"}
      PROVE  Bought(call'[c].new.contract.form, repair', signed')
  <2>1. CASE call[c].at \in {"contract", "profiles", "tissue"}
    <3>1. call'[c].new = call[c].new
      BY <1>4, <2>1, CallStep DEF Begun, Tested, Advanced
    <3>2. /\ Bought(call[c].new.contract.form, repair, signed)
          /\ call[c].new.contract.form \in Seq(Repairs)
      BY <1>0, <2>1 DEF BoughtInv, At, Building
    <3> QED
      BY <3>1, <3>2, BoughtStays
  <2>2. CASE call[c].at \notin {"contract", "profiles", "tissue"}
    <3> DEFINE r == call[c].repair
               s == call[c].seen.form
    <3>1. call[c].at = "promoting" /\ DeployDone(c) /\ call'[c].new = call[c].new
      BY <1>4, <2>2, CallStep DEF Begun, Tested, Advanced
    <3>2. /\ call[c].new.contract.form = Append(s, r) /\ r \in Repairs /\ s \in Seq(Repairs)
          /\ Bought(s, repair, signed) /\ Count(s, r) + 1 <= signed[r]
      BY <1>0, <3>1 DEF Assembled, BoughtInv, At, Building
    <3>3. signed' = signed /\ repair' = [repair EXCEPT ![r].status = "deployed"]
      BY <3>1 DEF DeployDone, MarkDeployed
    <3> SUFFICES ASSUME NEW q \in Repairs
                 PROVE  /\ Count(Append(s, r), q) <= signed[q]
                        /\ repair'[q].status = "signed" => Count(Append(s, r), q) + 1 <= signed[q]
      BY <3>1, <3>2, <3>3 DEF Bought
    <3>4. repair'[r].status = "deployed" /\ (q # r => repair'[q] = repair[q])
      BY <3>2, <3>3 DEF GateInv, TypeOK, Candidates
    <3>5. /\ Count(s, q) <= signed[q]
          /\ repair[q].status = "signed" => Count(s, q) + 1 <= signed[q]
      BY <3>2 DEF Bought
    <3>6. Count(Append(s, r), q) = IF q = r THEN Count(s, q) + 1 ELSE Count(s, q)
      BY <3>2, CountAppend
    <3> HIDE DEF r, s
    <3> QED
      BY <3>2, <3>4, <3>5, <3>6
  <2> QED
    BY <2>1, <2>2
<1> QED
  BY <1>1, <1>2, <1>3, <1>4 DEF BoughtInv, At

\* A signature buys one deployment: the contract never holds a candidate's patches more
\* often than it was signed, however many deploy calls race for the signature.
THEOREM OncePerSignatureAlways == Spec => []OncePerSignature
<1>1. Init => Assembled /\ BoughtInv
  <2> SUFFICES ASSUME Init PROVE Assembled /\ BoughtInv
    OBVIOUS
  <2>1. \A c \in Clients : call[c].at = "idle"
    BY DEF Init, Idle
  <2>2. Bought(contract.form, repair, signed)
    BY CountEmpty DEF Init, Bought, Unborn
  <2> QED
    BY <2>1, <2>2 DEF Assembled, BoughtInv, At, Building
<1>2. GateInv /\ GateInv' /\ Assembled /\ BoughtInv /\ [Next]_vars => Assembled' /\ BoughtInv'
  BY StepKeepsAssembled, StepKeepsBought
<1>3. BoughtInv => OncePerSignature
  BY DEF BoughtInv, Bought, OncePerSignature
<1> QED
  BY <1>1, <1>2, <1>3, RepairInvariant, PTL DEF Spec
-----------------------------------------------------------------------------
(* Deployments that do not overlap leave the artifacts in agreement *)

Agreed == /\ profiles = contract.form
          /\ tissue.version = contract.version
          /\ contract.form # <<>> => tissue.last = Last(contract.form)

\* While nobody has overlapped, one deployment runs at most.  The artifacts agree but where
\* it registers them, and what it has read is what is registered until it does; there they
\* agree as far as it has come.
Lone ==
  /\ \A c, d \in Clients : Deploying(c) /\ Deploying(d) => c = d
  /\ (\A c \in Clients : ~At(c, {"profiles", "tissue"})) => Agreed
  /\ \A d \in deployments : IsPrefix(d.to.form, contract.form)
  /\ \A c \in Clients :
       /\ At(c, {"checking", "status", "report", "applying", "promoting", "contract"}) => call[c].seen = contract
       /\ At(c, {"promoting", "contract"}) => call[c].new.profiles = call[c].new.contract.form
       /\ At(c, {"profiles", "tissue"}) => /\ contract = call[c].new.contract
                                           /\ call[c].new.profiles = contract.form
       /\ At(c, {"tissue"}) => profiles = contract.form

LEMMA PrefixAppend ==
  ASSUME NEW s \in Seq(Repairs), NEW t \in Seq(Repairs), NEW r \in Repairs, IsPrefix(s, t)
  PROVE  IsPrefix(s, Append(t, r))
BY DEF IsPrefix

LEMMA PrefixOfItself ==
  ASSUME NEW s \in Seq(Repairs)
  PROVE  IsPrefix(s, s)
BY DEF IsPrefix

LEMMA LastOfAppend ==
  ASSUME NEW s \in Seq(Repairs), NEW r \in Repairs
  PROVE  Append(s, r) # <<>> /\ Last(Append(s, r)) = r
BY DEF Last

\* A step that writes no artifact, while the clients deploy where they did, with what they had.
LEMMA LoneKept ==
  ASSUME Lone, UNCHANGED <<artifacts, deployments>>,
         \A c \in Clients : Deploying(c)' => call'[c] = call[c],
         \A c \in Clients : At(c, {"profiles", "tissue"}) => call'[c] = call[c]
  PROVE  Lone'
<1>1. /\ contract' = contract /\ profiles' = profiles /\ tissue' = tissue
      /\ deployments' = deployments /\ (Agreed' <=> Agreed)
  BY DEF artifacts, Agreed
<1>2. \A c \in Clients : Deploying(c)' => Deploying(c)
  BY DEF Deploying
<1>3. \A c \in Clients, places \in SUBSET {"checking", "status", "report", "applying", "promoting", "contract", "profiles", "tissue"} :
        At(c, places)' => call'[c] = call[c] /\ At(c, places)
  BY DEF At, Deploying
<1>4. (\A c \in Clients : ~At(c, {"profiles", "tissue"})') => \A c \in Clients : ~At(c, {"profiles", "tissue"})
  BY DEF At
<1>5. \A c \in Clients :
       /\ At(c, {"checking", "status", "report", "applying", "promoting", "contract"})' => call'[c].seen = contract'
       /\ At(c, {"promoting", "contract"})' => call'[c].new.profiles = call'[c].new.contract.form
       /\ At(c, {"profiles", "tissue"})' => /\ contract' = call'[c].new.contract
                                            /\ call'[c].new.profiles = contract'.form
       /\ At(c, {"tissue"})' => profiles' = contract'.form
  BY <1>1, <1>3 DEF Lone
<1> QED
  BY <1>1, <1>2, <1>4, <1>5 DEF Lone

\* A step of the one that deploys: what has to be seen is what it changes.
LEMMA LoneMoves ==
  ASSUME GateInv, Lone, NEW c \in Clients, Deploying(c),
         call' \in [Clients -> CallStates],
         \A d \in Clients \ {c} : call'[d] = call[d],
         At(c, {"profiles", "tissue"})' \/ Agreed',
         \A d \in deployments' : IsPrefix(d.to.form, contract'.form),
         At(c, {"checking", "status", "report", "applying", "promoting", "contract"})' => call'[c].seen = contract',
         At(c, {"promoting", "contract"})' => call'[c].new.profiles = call'[c].new.contract.form,
         At(c, {"profiles", "tissue"})' => /\ contract' = call'[c].new.contract
                                           /\ call'[c].new.profiles = contract'.form,
         At(c, {"tissue"})' => profiles' = contract'.form
  PROVE  Lone'
<1>1. \A d \in Clients \ {c} : ~Deploying(d) /\ ~Deploying(d)'
  BY DEF Lone, Deploying
<1>2. \A d \in Clients \ {c} : call'[d].at \notin {"checking", "status", "report", "applying", "promoting", "contract", "profiles", "tissue"}
  BY <1>1 DEF Deploying
<1> QED
  BY <1>1, <1>2 DEF Lone, At

LEMMA LoneDeployRead ==
  ASSUME GateInv, ~overlapped => Lone, NEW c \in Clients, NEW r \in Repairs, DeployRead(c, r), ~overlapped'
  PROVE  Lone'
<1>1. ~overlapped /\ Lone /\ \A d \in Clients : ~Deploying(d)
  BY DEF DeployRead
<1>2. /\ call'[c].at = "checking" /\ call'[c].seen = contract
      /\ \A d \in Clients \ {c} : call'[d] = call[d]
      /\ UNCHANGED <<artifacts, deployments>>
  BY DEF DeployRead, Begin, GateInv, TypeOK, CallStates
<1>3. \A d \in Clients : call[d].at \notin {"checking", "status", "report", "applying", "promoting", "contract", "profiles", "tissue"}
  BY <1>1 DEF Deploying
<1>4. Agreed /\ contract' = contract /\ Agreed'
  BY <1>1, <1>2, <1>3 DEF Lone, At, Agreed, artifacts
<1>5. \A d \in deployments' : IsPrefix(d.to.form, contract'.form)
  BY <1>1, <1>2, <1>4 DEF Lone
<1>6. \A d \in Clients : Deploying(d)' => d = c
  BY <1>2, <1>3 DEF Deploying
<1> QED
  BY <1>2, <1>3, <1>4, <1>5, <1>6 DEF Lone, At

LEMMA LoneProceeds ==
  ASSUME GateInv, GateInv', Assembled, Assembled', Lone, NEW c \in Clients,
         \/ CheckSignature(c) \/ CheckStatus(c) \/ CheckReport(c)
         \/ DeployApply(c) \/ DeployFail(c) \/ DeployDone(c)
         \/ RegisterContract(c) \/ RegisterProfiles(c) \/ RegisterTissue(c)
  PROVE  Lone'
<1>0. /\ call \in [Clients -> CallStates] /\ call' \in [Clients -> CallStates]
      /\ contract \in Contracts
      /\ \A d \in deployments : d.to.form \in Seq(Repairs) /\ IsPrefix(d.to.form, contract.form)
  BY DEF GateInv, TypeOK, Lone, Contracts
<1>1. /\ Deploying(c)
      /\ \A d \in Clients \ {c} : call'[d] = call[d]
  BY <1>0 DEF Deploying, CheckSignature, CheckStatus, CheckReport, Test, DeployApply, DeployFail,
              DeployDone, RegisterContract, RegisterProfiles, RegisterTissue
<1>2. \A d \in Clients \ {c} : ~At(d, {"profiles", "tissue"})
  BY <1>1 DEF Lone, Deploying, At
<1>3. ASSUME call[c].at \in {"checking", "status", "report", "applying", "promoting", "contract"}
      PROVE  Agreed /\ call[c].seen = contract
  <2>1. \A d \in Clients : ~At(d, {"profiles", "tissue"})
    BY <1>2, <1>3 DEF At
  <2> QED
    BY <1>3, <2>1 DEF Lone, At
<1>4. CASE CheckSignature(c) \/ CheckStatus(c) \/ CheckReport(c)
  <2>1. /\ call'[c].at \in {"idle", "status", "report", "applying"}
        /\ call[c].at \in {"checking", "status", "report"}
        /\ call'[c].at # "idle" => call'[c].seen = call[c].seen
        /\ UNCHANGED <<artifacts, deployments>>
    BY <1>4, TestedOrEnded DEF Tested, Idle
  <2>2. Agreed' /\ contract' = contract /\ deployments' = deployments
    BY <1>3, <2>1 DEF Agreed, artifacts
  <2>3. ~At(c, {"promoting", "contract"})' /\ ~At(c, {"profiles", "tissue"})' /\ ~At(c, {"tissue"})'
    BY <2>1 DEF At
  <2>4. At(c, {"checking", "status", "report", "applying", "promoting", "contract"})' => call'[c].seen = contract'
    BY <1>3, <2>1, <2>2 DEF At
  <2> QED
    BY <1>0, <1>1, <2>2, <2>3, <2>4, LoneMoves
<1>5. CASE DeployApply(c)
  <2>1. /\ call'[c].at = "promoting" /\ call[c].at = "applying" /\ call'[c].seen = call[c].seen
        /\ call'[c].new = Built(c, profiles)
        /\ UNCHANGED <<artifacts, deployments>>
    BY <1>0, <1>5 DEF DeployApply, CallStates
  <2>2. Agreed' /\ contract' = contract /\ deployments' = deployments
    BY <1>3, <2>1 DEF Agreed, artifacts
  <2>3. call'[c].new.profiles = call'[c].new.contract.form
    BY <1>3, <2>1 DEF Built, Patched, Agreed
  <2>4. ~At(c, {"profiles", "tissue"})' /\ ~At(c, {"tissue"})' /\ call'[c].seen = contract'
    BY <1>3, <2>1, <2>2 DEF At
  <2> QED
    BY <1>0, <1>1, <2>2, <2>3, <2>4, LoneMoves
<1>6. CASE DeployFail(c)
  <2>1. /\ call'[c].at = "idle" /\ call[c].at \in {"applying", "promoting"}
        /\ UNCHANGED <<artifacts, deployments>>
    BY <1>0, <1>6 DEF DeployFail, Idle
  <2>2. Agreed' /\ contract' = contract /\ deployments' = deployments
    BY <1>3, <2>1 DEF Agreed, artifacts
  <2>3. \A places \in {{"checking", "status", "report", "applying", "promoting", "contract"}, {"promoting", "contract"},
                       {"profiles", "tissue"}, {"tissue"}} : ~At(c, places)'
    BY <2>1 DEF At
  <2> QED
    BY <1>0, <1>1, <2>2, <2>3, LoneMoves
<1>7. CASE DeployDone(c)
  <2>1. /\ call'[c].at = "contract" /\ call[c].at = "promoting" /\ call'[c].seen = call[c].seen
        /\ call'[c].new = call[c].new
        /\ UNCHANGED <<artifacts, deployments>>
    <3>1. call' = [call EXCEPT ![c].at = "contract"] /\ call[c].at = "promoting"
      BY <1>7 DEF DeployDone
    <3> QED
      BY <1>0, <1>7, <3>1 DEF DeployDone, CallStates
  <2>2. Agreed' /\ contract' = contract /\ deployments' = deployments
    BY <1>3, <2>1 DEF Agreed, artifacts
  <2>3. call'[c].new.profiles = call'[c].new.contract.form
    BY <2>1 DEF Lone, At
  <2>4. ~At(c, {"profiles", "tissue"})' /\ ~At(c, {"tissue"})' /\ call'[c].seen = contract'
    BY <1>3, <2>1, <2>2 DEF At
  <2> QED
    BY <1>0, <1>1, <2>2, <2>3, <2>4, LoneMoves
<1>8. CASE RegisterContract(c)
  <2>1. /\ call'[c].at = "profiles" /\ call[c].at = "contract" /\ call'[c].new = call[c].new
        /\ contract' = call[c].new.contract /\ deployments' = deployments
    <3>1. call' = [call EXCEPT ![c].at = "profiles"] /\ call[c].at = "contract"
      BY <1>8 DEF RegisterContract
    <3> QED
      BY <1>0, <1>8, <3>1 DEF RegisterContract, CallStates
  <2>2. contract'.form = Append(contract.form, call[c].repair) /\ call[c].repair \in Repairs
    BY <1>3, <2>1 DEF Assembled, At, Building, GateInv, Working
  <2>3. \A d \in deployments' : IsPrefix(d.to.form, contract'.form)
    BY <1>0, <2>1, <2>2, PrefixAppend DEF Contracts
  <2>4. contract' = call'[c].new.contract /\ call'[c].new.profiles = contract'.form
    BY <2>1 DEF Lone, At
  <2>5. /\ At(c, {"profiles", "tissue"})' /\ ~At(c, {"tissue"})' /\ ~At(c, {"promoting", "contract"})'
        /\ ~At(c, {"checking", "status", "report", "applying", "promoting", "contract"})'
    BY <2>1 DEF At
  <2> QED
    BY <1>0, <1>1, <2>3, <2>4, <2>5, LoneMoves
<1>9. CASE RegisterProfiles(c)
  <2>1. /\ call'[c].at = "tissue" /\ call[c].at = "profiles" /\ call'[c].new = call[c].new
        /\ contract' = contract /\ deployments' = deployments /\ profiles' = call[c].new.profiles
    <3>1. call' = [call EXCEPT ![c].at = "tissue"] /\ call[c].at = "profiles"
      BY <1>9 DEF RegisterProfiles
    <3> QED
      BY <1>0, <1>9, <3>1 DEF RegisterProfiles, CallStates
  <2>2. /\ contract' = call'[c].new.contract /\ call'[c].new.profiles = contract'.form
        /\ profiles' = contract'.form
    BY <2>1 DEF Lone, At
  <2>3. /\ At(c, {"profiles", "tissue"})' /\ ~At(c, {"promoting", "contract"})'
        /\ ~At(c, {"checking", "status", "report", "applying", "promoting", "contract"})'
    BY <2>1 DEF At
  <2> QED
    BY <1>0, <1>1, <2>1, <2>2, <2>3, LoneMoves
<1>10. CASE RegisterTissue(c)
  <2> DEFINE n == call[c].new
             s == call[c].seen.form
             r == call[c].repair
  <2>1. /\ call'[c].at = "idle" /\ call[c].at = "tissue"
        /\ contract' = contract /\ profiles' = profiles /\ tissue' = n.tissue
        /\ deployments' = deployments \cup {[repair |-> r, from |-> call[c].seen, to |-> n.contract,
                                             seal |-> call[c].seal, inForce |-> call[c].inForce,
                                             on |-> call[c].on]}
    BY <1>0, <1>10 DEF RegisterTissue, Idle
  <2>2. contract = n.contract /\ profiles = contract.form
    BY <2>1 DEF Lone, At
  <2>3. /\ n.contract.form = Append(s, r) /\ n.tissue.version = n.contract.version /\ n.tissue.last = r
        /\ r \in Repairs /\ s \in Seq(Repairs)
    BY <2>1 DEF Assembled, At, Building, GateInv, Working, Contracts
  <2>4. Last(contract.form) = r
    BY <2>2, <2>3, LastOfAppend
  <2>5. Agreed'
    BY <2>1, <2>2, <2>3, <2>4 DEF Agreed
  <2>6. \A d \in deployments' : IsPrefix(d.to.form, contract'.form)
    <3>1. IsPrefix(n.contract.form, contract.form)
      BY <1>0, <2>2, PrefixOfItself DEF Contracts
    <3> HIDE DEF n, s, r
    <3> QED
      BY <1>0, <2>1, <3>1
  <2>7. \A places \in {{"checking", "status", "report", "applying", "promoting", "contract"}, {"promoting", "contract"},
                       {"profiles", "tissue"}, {"tissue"}} : ~At(c, places)'
    BY <2>1 DEF At
  <2> QED
    BY <1>0, <1>1, <2>5, <2>6, <2>7, LoneMoves
<1> QED
  BY <1>4, <1>5, <1>6, <1>7, <1>8, <1>9, <1>10

LEMMA StepKeepsLone ==
  ASSUME GateInv, GateInv', Assembled, Assembled', ~overlapped => Lone, [Next]_vars
  PROVE  ~overlapped' => Lone'
<1> SUFFICES ASSUME ~overlapped' PROVE Lone'
  OBVIOUS
<1>0. call \in [Clients -> CallStates]
  BY DEF GateInv, TypeOK
<1>1. CASE UNCHANGED vars
  BY <1>1, LoneKept DEF vars, artifacts
<1>2. ASSUME NEW c \in Clients, NEW r \in Repairs, VerifyRead(c, r) \/ ApproveCheck(c, r) \/ SignCheck(c, r)
      PROVE  Lone'
  <2>1. /\ overlapped' = overlapped /\ UNCHANGED <<artifacts, deployments>>
        /\ call[c].at = "idle" /\ call'[c].at \in {"replaying", "approving", "signing"}
        /\ \A d \in Clients \ {c} : call'[d] = call[d]
    BY <1>0, <1>2 DEF VerifyRead, ApproveCheck, SignCheck, Begin, CallStates
  <2> QED
    BY <2>1, LoneKept DEF Deploying, At
<1>3. ASSUME NEW c \in Clients, NEW r \in Repairs, DeployRead(c, r) PROVE Lone'
  BY <1>3, LoneDeployRead
<1>4. ASSUME NEW r \in Repairs, Propose(r) PROVE Lone'
  BY <1>4, LoneKept DEF Propose, artifacts
<1>5. ASSUME NEW c \in Clients, VerifyWrite(c) \/ ApproveWrite(c) \/ SignWrite(c) \/ SignHash(c)
      PROVE  Lone'
  <2>1. /\ overlapped' = overlapped /\ UNCHANGED <<artifacts, deployments>>
        /\ call[c].at \in {"replaying", "approving", "sealing", "signing"}
        /\ call'[c].at \in {"idle", "sealing"}
        /\ \A d \in Clients \ {c} : call'[d] = call[d]
    BY <1>0, <1>5 DEF VerifyWrite, ApproveWrite, SignWrite, SignHash, Idle, CallStates
  <2> QED
    BY <2>1, LoneKept DEF Deploying, At
<1>6. ASSUME NEW c \in Clients,
             \/ CheckSignature(c) \/ CheckStatus(c) \/ CheckReport(c)
             \/ DeployApply(c) \/ DeployFail(c) \/ DeployDone(c)
             \/ RegisterContract(c) \/ RegisterProfiles(c) \/ RegisterTissue(c)
      PROVE  Lone'
  <2>1. overlapped' = overlapped
    BY <1>6 DEF CheckSignature, CheckStatus, CheckReport, Test, DeployApply, DeployFail, DeployDone,
                RegisterContract, RegisterProfiles, RegisterTissue
  <2> QED
    BY <1>6, <2>1, LoneProceeds
<1> QED
  BY <1>1, <1>2, <1>3, <1>4, <1>5, <1>6 DEF Next, Proceed

\* Deployments that do not overlap lose nothing and leave contract, profiles and tissue in
\* agreement, although the endpoint registers the three one after the other.
THEOREM SettledAlways == Spec => []Settled
<1>1. Init => Assembled /\ (~overlapped => Lone)
  <2> SUFFICES ASSUME Init PROVE Assembled /\ Lone
    OBVIOUS
  <2>1. \A c \in Clients : call[c].at = "idle"
    BY DEF Init, Idle
  <2>2. Agreed
    BY DEF Init, Agreed
  <2> QED
    BY <2>1, <2>2 DEF Init, Assembled, Lone, At, Building, Deploying
<1>2. /\ GateInv /\ GateInv' /\ Assembled /\ (~overlapped => Lone) /\ [Next]_vars
      => Assembled' /\ (~overlapped => Lone)'
  BY StepKeepsAssembled, StepKeepsLone
<1>3. (~overlapped => Lone) => Settled
  BY DEF Lone, Settled, Agreed, Deploying, At
<1> QED
  BY <1>1, <1>2, <1>3, RepairInvariant, PTL DEF Spec
-----------------------------------------------------------------------------
\* A set of naturals has a least one.
LEMMA LeastNumber ==
  ASSUME NEW S \in SUBSET Nat, S # {}
  PROVE  \E x \in S : \A y \in S : x <= y
<1>1. PICK x \in S : \A y \in S : <<y, x>> \notin OpToRel(<, Nat)
  BY WFMin, NatLessThanWellFounded, Zenon
<1>2. \A y \in S : ~(y < x)
  BY <1>1, Zenon DEF OpToRel
<1>3. \A y \in S : x <= y
  BY <1>2
<1>4. QED
  BY <1>3

\* Induction over the naturals, on a set instead of a predicate.
LEMMA Inductive ==
  ASSUME NEW S \in SUBSET Nat, 0 \in S, \A n \in S : n + 1 \in S
  PROVE  \A n \in Nat : n \in S
<1> SUFFICES ASSUME \E n \in Nat : n \notin S PROVE FALSE
  OBVIOUS
<1> DEFINE T == Nat \ S
<1>1. PICK m \in T : \A y \in T : m <= y
  BY LeastNumber
<1>2. m # 0 /\ m - 1 \in Nat /\ m - 1 \in S
  BY <1>1
<1>3. (m - 1) + 1 \in S
  BY <1>2
<1>4. QED
  BY <1>2, <1>3

-----------------------------------------------------------------------------
\* Reading and putting at a path, as recursive functions.
IsRead(f, t, path) == f = [i \in 0..Len(path) |-> IF i = 0 THEN t ELSE Child(f[i - 1], path[i])]

\* The recursive function of ReadPointer is there.
LEMMA ReadExists ==
  ASSUME NEW K, NEW path \in Seq(K), NEW t
  PROVE  \E f : IsRead(f, t, path)
<1> DEFINE To(f, n) == f = [i \in 0..n |-> IF i = 0 THEN t ELSE Child(f[i - 1], path[i])]
           S == {n \in Nat : \E f : To(f, n)}
<1>1. 0 \in S
  <2>1. To([i \in 0..0 |-> t], 0)
    OBVIOUS
  <2> HIDE DEF To
  <2>2. QED
    BY <2>1
<1>2. ASSUME NEW n \in S PROVE n + 1 \in S
  <2>1. PICK f : To(f, n)
    OBVIOUS
  <2> DEFINE g == [i \in 0..(n + 1) |-> IF i = 0 THEN t ELSE Child(f[i - 1], path[i])]
  <2>2. \A i \in 0..n : g[i] = f[i]
    BY <2>1
  <2>3. \A i \in 0..(n + 1) : i # 0 => i - 1 \in 0..n
    <3>1. n \in Nat
      OBVIOUS
    <3>2. QED
      BY <3>1
  <2>4. g = [i \in 0..(n + 1) |-> IF i = 0 THEN t ELSE Child(g[i - 1], path[i])]
    <3>1. \A i \in 0..(n + 1) : i # 0 => g[i - 1] = f[i - 1]
      <4> HIDE DEF g
      <4>1. QED
        BY <2>2, <2>3
    <3>2. QED
      BY <3>1
  <2> HIDE DEF g
  <2>5. To(g, n + 1)
    BY <2>4
  <2> HIDE DEF To
  <2>6. QED
    BY <2>5
<1>3. Len(path) \in Nat
  OBVIOUS
<1>4. Len(path) \in S
  <2> HIDE DEF S
  <2>1. S \in SUBSET Nat
    BY DEF S
  <2>2. QED
    BY <1>1, <1>2, <1>3, <2>1, Inductive
<1>5. QED
  BY <1>4 DEF IsRead

\* And ReadPointer is its last value.
LEMMA ReadIs ==
  ASSUME NEW K, NEW path \in Seq(K), NEW t
  PROVE  \E f : IsRead(f, t, path) /\ ReadPointer(t, path) = f[Len(path)]
<1>1. ReadPointer(t, path) = (CHOOSE f : IsRead(f, t, path))[Len(path)]
  BY DEF ReadPointer, IsRead
<1>2. QED
  BY <1>1, ReadExists

\* A path is read key by key.
LEMMA ReadRules ==
  ASSUME NEW K, NEW p \in Seq(K), NEW k \in K, NEW t
  PROVE  /\ ReadPointer(t, <<>>) = t
         /\ ReadPointer(t, Append(p, k)) = Child(ReadPointer(t, p), k)
<1>1. ReadPointer(t, <<>>) = t
  <2>1. <<>> \in Seq(K) /\ Len(<<>>) = 0
    OBVIOUS
  <2>2. PICK f : IsRead(f, t, <<>>) /\ ReadPointer(t, <<>>) = f[0]
    BY <2>1, ReadIs
  <2>3. QED
    BY <2>2 DEF IsRead
<1>2. ReadPointer(t, Append(p, k)) = Child(ReadPointer(t, p), k)
  <2> DEFINE q == Append(p, k)
             n == Len(p)
  <2>1. /\ q \in Seq(K) /\ n \in Nat /\ Len(q) = n + 1 /\ q[n + 1] = k
        /\ \A i \in 1..n : q[i] = p[i]
    OBVIOUS
  <2>2. PICK f : IsRead(f, t, p) /\ ReadPointer(t, p) = f[n]
    BY ReadIs
  <2>3. PICK g : IsRead(g, t, q) /\ ReadPointer(t, q) = g[n + 1]
    BY <2>1, ReadIs
  <2> HIDE DEF q, n
  <2> DEFINE S == {i \in Nat : i <= n => f[i] = g[i]}
  <2>4. 0 \in S
    BY <2>1, <2>2, <2>3 DEF IsRead, n
  <2>5. ASSUME NEW i \in S PROVE i + 1 \in S
    <3>1. SUFFICES ASSUME i + 1 <= n PROVE f[i + 1] = g[i + 1]
      OBVIOUS
    <3>2. i + 1 \in 0..n /\ i + 1 \in 0..(n + 1) /\ i + 1 \in 1..n /\ i + 1 # 0 /\ (i + 1) - 1 = i /\ f[i] = g[i]
      BY <2>1, <3>1
    <3>3. f[i + 1] = Child(f[i], p[i + 1])
      BY <2>2, <3>2 DEF IsRead, n
    <3>4. g[i + 1] = Child(g[i], q[i + 1])
      BY <2>1, <2>3, <3>2 DEF IsRead
    <3>5. QED
      BY <2>1, <3>2, <3>3, <3>4
  <2>6. f[n] = g[n]
    <3>1. n \in S
      <4>1. S \in SUBSET Nat
        OBVIOUS
      <4> HIDE DEF S
      <4>2. QED
        BY <2>1, <2>4, <2>5, <4>1, Inductive
    <3>2. QED
      BY <2>1, <3>1
  <2>7. g[n + 1] = Child(g[n], k)
    <3>1. n + 1 \in 0..(n + 1) /\ n + 1 # 0 /\ (n + 1) - 1 = n
      BY <2>1
    <3>2. QED
      BY <2>1, <2>3, <3>1 DEF IsRead
  <2>8. QED
    BY <2>2, <2>3, <2>6, <2>7 DEF q
<1>3. QED
  BY <1>1, <1>2

IsPut(f, t, path, new) ==
  f = [i \in 0..Len(path) |->
         IF i = 0 THEN new
         ELSE With(ReadPointer(t, SubSeq(path, 1, Len(path) - i)), path[Len(path) - i + 1], f[i - 1])]

\* The recursive function of Put is there.
LEMMA PutExists ==
  ASSUME NEW K, NEW path \in Seq(K), NEW t, NEW new
  PROVE  \E f : IsPut(f, t, path, new)
<1> DEFINE To(f, n) == f = [i \in 0..n |-> IF i = 0 THEN new ELSE With(ReadPointer(t, SubSeq(path, 1, Len(path) - i)), path[Len(path) - i + 1], f[i - 1])]
           S == {n \in Nat : \E f : To(f, n)}
<1>1. 0 \in S
  <2>1. To([i \in 0..0 |-> new], 0)
    OBVIOUS
  <2> HIDE DEF To
  <2>2. QED
    BY <2>1
<1>2. ASSUME NEW n \in S PROVE n + 1 \in S
  <2>1. PICK f : To(f, n)
    OBVIOUS
  <2> DEFINE g == [i \in 0..(n + 1) |-> IF i = 0 THEN new ELSE With(ReadPointer(t, SubSeq(path, 1, Len(path) - i)), path[Len(path) - i + 1], f[i - 1])]
  <2>2. \A i \in 0..n : g[i] = f[i]
    BY <2>1
  <2>3. \A i \in 0..(n + 1) : i # 0 => i - 1 \in 0..n
    <3>1. n \in Nat
      OBVIOUS
    <3>2. QED
      BY <3>1
  <2>4. g = [i \in 0..(n + 1) |-> IF i = 0 THEN new ELSE With(ReadPointer(t, SubSeq(path, 1, Len(path) - i)), path[Len(path) - i + 1], g[i - 1])]
    <3>1. \A i \in 0..(n + 1) : i # 0 => g[i - 1] = f[i - 1]
      <4> HIDE DEF g
      <4>1. QED
        BY <2>2, <2>3
    <3>2. QED
      BY <3>1
  <2> HIDE DEF g
  <2>5. To(g, n + 1)
    BY <2>4
  <2> HIDE DEF To
  <2>6. QED
    BY <2>5
<1>3. Len(path) \in Nat
  OBVIOUS
<1>4. Len(path) \in S
  <2> HIDE DEF S
  <2>1. S \in SUBSET Nat
    BY DEF S
  <2>2. QED
    BY <1>1, <1>2, <1>3, <2>1, Inductive
<1>5. QED
  BY <1>4 DEF IsPut

\* And Put is its last value.
LEMMA PutIs ==
  ASSUME NEW K, NEW path \in Seq(K), NEW t, NEW new
  PROVE  \E f : IsPut(f, t, path, new) /\ Put(t, path, new) = f[Len(path)]
<1>1. Put(t, path, new) = (CHOOSE f : IsPut(f, t, path, new))[Len(path)]
  BY DEF Put, IsPut
<1>2. QED
  BY <1>1, PutExists

\* Putting at a path is putting what is above it, with the key changed.
LEMMA PutRules ==
  ASSUME NEW K, NEW p \in Seq(K), NEW k \in K, NEW t, NEW new
  PROVE  /\ Put(t, <<>>, new) = new
         /\ Put(t, Append(p, k), new) = Put(t, p, With(ReadPointer(t, p), k, new))
<1>1. Put(t, <<>>, new) = new
  <2>1. <<>> \in Seq(K) /\ Len(<<>>) = 0
    OBVIOUS
  <2>2. PICK f : IsPut(f, t, <<>>, new) /\ Put(t, <<>>, new) = f[0]
    BY <2>1, PutIs
  <2>3. QED
    BY <2>1, <2>2 DEF IsPut
<1>2. Put(t, Append(p, k), new) = Put(t, p, With(ReadPointer(t, p), k, new))
  <2> DEFINE q == Append(p, k)
             n == Len(p)
             above == With(ReadPointer(t, p), k, new)
  <2>1. /\ q \in Seq(K) /\ n \in Nat /\ Len(q) = n + 1 /\ q[n + 1] = k
        /\ \A i \in 1..n : q[i] = p[i]
    OBVIOUS
  <2>2. \A i \in 0..n : SubSeq(q, 1, i) = SubSeq(p, 1, i)
    OBVIOUS
  <2>3. SubSeq(p, 1, n) = p
    OBVIOUS
  <2>4. PICK g : IsPut(g, t, p, above) /\ Put(t, p, above) = g[n]
    BY PutIs
  <2>5. PICK f : IsPut(f, t, q, new) /\ Put(t, q, new) = f[n + 1]
    BY <2>1, PutIs
  <2> HIDE DEF q, n, above
  <2>6. ASSUME NEW i \in 1..(n + 1)
        PROVE  f[i] = With(ReadPointer(t, SubSeq(q, 1, (n + 1) - i)), q[(n + 1) - i + 1], f[i - 1])
    <3>1. i \in 0..(n + 1) /\ i # 0
      BY <2>1
    <3>2. QED
      BY <2>1, <2>5, <3>1 DEF IsPut
  <2>7. ASSUME NEW i \in 1..n
        PROVE  g[i] = With(ReadPointer(t, SubSeq(p, 1, n - i)), p[n - i + 1], g[i - 1])
    <3>1. i \in 0..n /\ i # 0
      BY <2>1
    <3>2. QED
      BY <2>1, <2>4, <3>1 DEF IsPut, n
  <2> DEFINE S == {i \in Nat : i <= n => f[i + 1] = g[i]}
  <2>8. 0 \in S
    <3>1. f[0] = new /\ g[0] = above
      BY <2>1, <2>4, <2>5 DEF IsPut, n
    <3>2. 1 \in 1..(n + 1) /\ (n + 1) - 1 = n /\ n + 1 - 1 + 1 = n + 1 /\ 1 - 1 = 0 /\ n \in 0..n
      BY <2>1
    <3>3. f[1] = With(ReadPointer(t, SubSeq(q, 1, n)), q[n + 1], f[0])
      BY <2>6, <3>2
    <3>4. SubSeq(q, 1, n) = p
      BY <2>2, <2>3, <3>2
    <3>5. f[1] = above
      BY <2>1, <3>1, <3>3, <3>4 DEF above
    <3>6. QED
      BY <3>1, <3>5
  <2>9. ASSUME NEW i \in S PROVE i + 1 \in S
    <3>1. SUFFICES ASSUME i + 1 <= n PROVE f[(i + 1) + 1] = g[i + 1]
      OBVIOUS
    <3> DEFINE j == n - (i + 1)
    <3>2. /\ (i + 1) + 1 \in 1..(n + 1) /\ i + 1 \in 1..n
          /\ (n + 1) - ((i + 1) + 1) = j /\ j \in 0..n /\ j + 1 \in 1..n
          /\ ((i + 1) + 1) - 1 = i + 1 /\ (i + 1) - 1 = i
      BY <2>1, <3>1
    <3>3. f[i + 1] = g[i]
      BY <2>1, <3>1
    <3> HIDE DEF j
    <3>4. f[(i + 1) + 1] = With(ReadPointer(t, SubSeq(q, 1, j)), q[j + 1], f[i + 1])
      BY <2>6, <3>2
    <3>5. g[i + 1] = With(ReadPointer(t, SubSeq(p, 1, j)), p[j + 1], g[i])
      BY <2>7, <3>2 DEF j
    <3>6. QED
      BY <2>1, <2>2, <3>2, <3>3, <3>4, <3>5
  <2>10. f[n + 1] = g[n]
    <3>1. n \in S
      <4>1. S \in SUBSET Nat
        OBVIOUS
      <4> HIDE DEF S
      <4>2. QED
        BY <2>1, <2>8, <2>9, <4>1, Inductive
    <3>2. QED
      BY <2>1, <3>1
  <2>11. QED
    BY <2>4, <2>5, <2>10 DEF q, above
<1>3. QED
  BY <1>1, <1>2

-----------------------------------------------------------------------------
\* A set of documents: objects over some keys, lists, and leaves.
DocumentTrees(Trees, Texts) == \E Atoms :
  Trees = {Object(f) : f \in UNION {[K -> Trees] : K \in SUBSET Texts}}
            \cup {ListOf(s) : s \in Seq(Trees)} \cup {Leaf(v) : v \in Atoms}

\* An object's members and a list's elements are trees, and no tree is an exception's mark.
LEMMA ShapeOf ==
  ASSUME NEW Trees, NEW Texts, DocumentTrees(Trees, Texts), NEW t \in Trees
  PROVE  /\ IsObject(t) => /\ t = Object(t.object) /\ t.object \in [DOMAIN t.object -> Trees]
                           /\ DOMAIN t.object \subseteq Texts /\ ~IsList(t)
         /\ IsList(t) => t = ListOf(t.list) /\ t.list \in Seq(Trees)
         /\ t # Missing /\ t # Raised
<1>1. CASE \E K \in SUBSET Texts : \E f \in [K -> Trees] : t = Object(f)
  <2>0. PICK K \in SUBSET Texts : \E f \in [K -> Trees] : t = Object(f)
    BY <1>1
  <2>1. PICK f \in [K -> Trees] : t = Object(f)
    BY <2>0
  <2>2. t = [object |-> f] /\ DOMAIN t = {"object"} /\ t.object = f
    BY <2>1 DEF Object
  <2>3. DOMAIN f = K /\ f \in [DOMAIN f -> Trees]
    OBVIOUS
  <2>4. t # Missing /\ t # Raised
    BY <2>2 DEF Missing, Raised
  <2>5. QED
    BY <2>1, <2>2, <2>3, <2>4 DEF IsObject, IsList
<1>2. CASE \E s \in Seq(Trees) : t = ListOf(s)
  <2>1. PICK s \in Seq(Trees) : t = ListOf(s)
    BY <1>2
  <2>2. t = [list |-> s] /\ DOMAIN t = {"list"} /\ t.list = s
    BY <2>1 DEF ListOf
  <2>3. t # Missing /\ t # Raised
    BY <2>2 DEF Missing, Raised
  <2>4. QED
    BY <2>1, <2>2, <2>3 DEF IsObject, IsList
<1>3. CASE \E v : t = Leaf(v)
  <2>1. PICK v : t = Leaf(v)
    BY <1>3
  <2>2. DOMAIN t = {"leaf"}
    BY <2>1 DEF Leaf
  <2>3. t # Missing /\ t # Raised
    BY <2>2 DEF Missing, Raised
  <2>4. QED
    BY <2>2, <2>3 DEF IsObject, IsList
<1>4. QED
  BY <1>1, <1>2, <1>3 DEF DocumentTrees

\* Objects and lists of trees are trees.
LEMMA Grown ==
  ASSUME NEW Trees, NEW Texts, DocumentTrees(Trees, Texts)
  PROVE  /\ \A f : DOMAIN f \subseteq Texts /\ f \in [DOMAIN f -> Trees] => Object(f) \in Trees
         /\ \A s \in Seq(Trees) : ListOf(s) \in Trees
         /\ \A f : IsObject(Object(f)) /\ ~IsList(Object(f)) /\ Object(f).object = f
         /\ \A s : IsList(ListOf(s)) /\ ~IsObject(ListOf(s)) /\ ListOf(s).list = s
<1>1. \A f : DOMAIN f \subseteq Texts /\ f \in [DOMAIN f -> Trees] => Object(f) \in Trees
  <2> SUFFICES ASSUME NEW f, DOMAIN f \subseteq Texts, f \in [DOMAIN f -> Trees] PROVE Object(f) \in Trees
    OBVIOUS
  <2>1. f \in UNION {[K -> Trees] : K \in SUBSET Texts}
    OBVIOUS
  <2>2. QED
    BY <2>1 DEF DocumentTrees
<1>2. \A s \in Seq(Trees) : ListOf(s) \in Trees
  BY DEF DocumentTrees
<1>3. \A f : IsObject(Object(f)) /\ ~IsList(Object(f)) /\ Object(f).object = f
  BY DEF IsObject, IsList, Object
<1>4. \A s : IsList(ListOf(s)) /\ ~IsObject(ListOf(s)) /\ ListOf(s).list = s
  BY DEF IsObject, IsList, ListOf
<1>5. QED
  BY <1>1, <1>2, <1>3, <1>4

\* A numeral's position, and no other text's.
LEMMA PositionIs ==
  ASSUME NEW k
  PROVE  /\ \/ Position(k) = 0
            \/ Position(k) \in DOMAIN Numerals /\ Numerals[Position(k)] = k
         /\ \A i \in DOMAIN Numerals : Position(Numerals[i]) = i
         /\ Position(End) = 0
<1>1. \A i \in DOMAIN Numerals : Position(Numerals[i]) = i
  <2> SUFFICES ASSUME NEW i \in DOMAIN Numerals PROVE Position(Numerals[i]) = i
    OBVIOUS
  <2>1. {j \in DOMAIN Numerals : Numerals[j] = Numerals[i]} = {i}
    BY PatchesAssumption
  <2>2. i \in Nat
    BY PatchesAssumption
  <2>3. Least({i}) = i
    BY <2>2 DEF Least
  <2>4. QED
    BY <2>1, <2>3 DEF Position
<1>2. ASSUME NEW l, \A i \in DOMAIN Numerals : Numerals[i] # l PROVE Position(l) = 0
  <2>1. {i \in DOMAIN Numerals : Numerals[i] = l} = {}
    BY <1>2
  <2>2. QED
    BY <2>1 DEF Position, Least
<1>3. Position(End) = 0
  BY <1>2, PatchesAssumption
<1>4. QED
  BY <1>1, <1>2, <1>3

\* A child that is there can be put back, and be replaced.
LEMMA ChildRules ==
  ASSUME NEW Trees, NEW Texts, DocumentTrees(Trees, Texts), NEW x \in Trees, NEW k, Child(x, k) # Missing,
         NEW a \in Trees, NEW b \in Trees
  PROVE  /\ Child(x, k) \in Trees
         /\ With(x, k, a) \in Trees
         /\ With(x, k, Child(x, k)) = x
         /\ Child(With(x, k, a), k) = a
         /\ With(With(x, k, a), k, b) = With(x, k, b)
<1>1. CASE IsObject(x)
  <2> DEFINE f == x.object
  <2>1. x = Object(f) /\ f \in [DOMAIN f -> Trees] /\ DOMAIN f \subseteq Texts /\ ~IsList(x)
    BY <1>1, ShapeOf
  <2> HIDE DEF f
  <2>2. k \in DOMAIN f /\ Child(x, k) = f[k]
    BY <1>1, <2>1 DEF Child, f
  <2>3. \A v : With(x, k, v) = Object(Entered(f, k, v))
    BY <1>1 DEF With, f
  <2>4. ASSUME NEW v \in Trees
        PROVE  /\ DOMAIN Entered(f, k, v) = DOMAIN f /\ Entered(f, k, v) \in [DOMAIN f -> Trees]
               /\ Entered(f, k, v)[k] = v
               /\ \A w : Entered(Entered(f, k, v), k, w) = Entered(f, k, w)
    BY <2>1, <2>2 DEF Entered
  <2>5. Entered(f, k, f[k]) = f
    BY <2>1, <2>2 DEF Entered
  <2> DEFINE y == With(x, k, a)
             g == Entered(f, k, a)
  <2>6. /\ y = Object(g) /\ y \in Trees /\ IsObject(y) /\ y.object = g /\ ~IsList(y)
    <3>1. y = Object(g)
      BY <2>3
    <3>2. DOMAIN g \subseteq Texts /\ g \in [DOMAIN g -> Trees]
      BY <2>1, <2>4
    <3> HIDE DEF y, g
    <3>3. Object(g) \in Trees /\ IsObject(Object(g)) /\ ~IsList(Object(g)) /\ Object(g).object = g
      BY <3>2, Grown
    <3>4. QED
      BY <3>1, <3>3
  <2>7. g[k] = a /\ k \in DOMAIN g /\ \A w : Entered(g, k, w) = Entered(f, k, w)
    BY <2>2, <2>4
  <2> HIDE DEF y, g
  <2>8. Child(y, k) = a /\ With(y, k, b) = Object(Entered(g, k, b))
    BY <2>6, <2>7 DEF Child, With
  <2>9. Child(x, k) \in Trees
    BY <2>1, <2>2
  <2>10. QED
    BY <2>1, <2>2, <2>3, <2>5, <2>6, <2>7, <2>8, <2>9 DEF y
<1>2. CASE ~IsObject(x)
  <2> DEFINE s == x.list
             i == Position(k)
  <2>1. IsList(x) /\ i \in DOMAIN s /\ Child(x, k) = s[i]
    BY <1>2 DEF Child
  <2>2. x = ListOf(s) /\ s \in Seq(Trees)
    BY <2>1, ShapeOf
  <2>3. \A v : With(x, k, v) = ListOf([s EXCEPT ![i] = v])
    BY <1>2 DEF With
  <2> HIDE DEF s, i
  <2> DEFINE y == With(x, k, a)
             r == [s EXCEPT ![i] = a]
  <2>4. /\ r \in Seq(Trees) /\ i \in DOMAIN r /\ r[i] = a /\ [r EXCEPT ![i] = b] = [s EXCEPT ![i] = b]
        /\ [s EXCEPT ![i] = s[i]] = s /\ s[i] \in Trees
    <3>1. s \in [1..Len(s) -> Trees] /\ i \in 1..Len(s) /\ DOMAIN s = 1..Len(s)
      BY <2>1, <2>2
    <3>2. r \in [1..Len(s) -> Trees]
      BY <3>1
    <3>3. r \in Seq(Trees)
      BY <2>2, <3>2, ExceptSeq, <3>1
    <3>4. i \in DOMAIN r /\ r[i] = a /\ s[i] \in Trees
      BY <3>1
    <3>5. [r EXCEPT ![i] = b] = [s EXCEPT ![i] = b]
      BY <3>1
    <3>6. [s EXCEPT ![i] = s[i]] = s
      BY <3>1
    <3>7. QED
      BY <3>3, <3>4, <3>5, <3>6
  <2>5. y = ListOf(r) /\ y \in Trees /\ IsList(y) /\ ~IsObject(y) /\ y.list = r
    <3>1. y = ListOf(r)
      BY <2>3
    <3>2. r \in Seq(Trees)
      BY <2>4
    <3> HIDE DEF y, r
    <3>3. ListOf(r) \in Trees /\ IsList(ListOf(r)) /\ ~IsObject(ListOf(r)) /\ ListOf(r).list = r
      BY <3>2, Grown
    <3>4. QED
      BY <3>1, <3>3
  <2> HIDE DEF y, r
  <2>6. Child(y, k) = a /\ With(y, k, b) = ListOf([r EXCEPT ![i] = b])
    BY <2>4, <2>5 DEF Child, With, i
  <2>7. QED
    BY <2>1, <2>2, <2>3, <2>4, <2>5, <2>6 DEF y
<1>3. QED
  BY <1>1, <1>2

\* What is at a path that exists can be put back, and be replaced.
LEMMA PathRules ==
  ASSUME NEW Trees, NEW Texts, DocumentTrees(Trees, Texts), NEW t \in Trees, NEW K
  PROVE  \A p \in Seq(K) : ReadPointer(t, p) # Missing =>
           /\ ReadPointer(t, p) \in Trees
           /\ Put(t, p, ReadPointer(t, p)) = t
           /\ \A a \in Trees : Put(t, p, a) \in Trees /\ ReadPointer(Put(t, p, a), p) = a
           /\ \A a, b \in Trees : Put(Put(t, p, a), p, b) = Put(t, p, b)
<1> DEFINE Lens(p) ==
             /\ ReadPointer(t, p) \in Trees
             /\ Put(t, p, ReadPointer(t, p)) = t
             /\ \A a \in Trees : Put(t, p, a) \in Trees /\ ReadPointer(Put(t, p, a), p) = a
             /\ \A a, b \in Trees : Put(Put(t, p, a), p, b) = Put(t, p, b)
           S == {n \in Nat : \A p \in Seq(K) : Len(p) = n /\ ReadPointer(t, p) # Missing => Lens(p)}
<1>1. 0 \in S
  <2>1. Lens(<<>>)
    <3>1. \A u : ReadPointer(u, <<>>) = u
      <4> TAKE u
      <4> DEFINE e == <<>>
      <4>1. e \in Seq({0}) /\ 0 \in {0}
        OBVIOUS
      <4> HIDE DEF e
      <4>2. QED
        BY <4>1, ReadRules
    <3>2. \A u, new : Put(u, <<>>, new) = new
      <4> TAKE u, new
      <4> DEFINE e == <<>>
      <4>1. e \in Seq({0}) /\ 0 \in {0}
        OBVIOUS
      <4> HIDE DEF e
      <4>2. QED
        BY <4>1, PutRules
    <3>3. QED
      BY <3>1, <3>2
  <2>2. \A p \in Seq(K) : Len(p) = 0 => p = <<>>
    OBVIOUS
  <2> HIDE DEF Lens
  <2>3. QED
    BY <2>1, <2>2
<1>2. ASSUME NEW n \in S PROVE n + 1 \in S
  <2> SUFFICES ASSUME NEW q \in Seq(K), Len(q) = n + 1, ReadPointer(t, q) # Missing PROVE Lens(q)
    <3> HIDE DEF Lens
    <3>1. QED
      OBVIOUS
  <2> DEFINE p == SubSeq(q, 1, n)
             k == q[n + 1]
             x == ReadPointer(t, p)
  <2>1. n \in Nat /\ q = Append(p, k) /\ p \in Seq(K) /\ k \in K /\ Len(p) = n
    OBVIOUS
  <2> HIDE DEF p, k, x
  <2>2. \A u, new : ReadPointer(u, q) = Child(ReadPointer(u, p), k) /\ Put(u, q, new) = Put(u, p, With(ReadPointer(u, p), k, new))
    BY <2>1, ReadRules, PutRules
  <2>3. Child(x, k) # Missing
    BY <2>2 DEF x
  <2>4. x # Missing
    <3>1. Child(Missing, k) = Missing
      BY DEF Child, IsObject, IsList, Missing
    <3>2. QED
      BY <2>3, <3>1
  <2>5. Lens(p)
    <3> HIDE DEF Lens
    <3>1. QED
      BY <2>1, <2>4 DEF x
  <2>6. /\ x \in Trees /\ Put(t, p, x) = t
        /\ \A a \in Trees : Put(t, p, a) \in Trees /\ ReadPointer(Put(t, p, a), p) = a
        /\ \A a, b \in Trees : Put(Put(t, p, a), p, b) = Put(t, p, b)
    BY <2>5 DEF x
  <2>7. \A a, b \in Trees : /\ Child(x, k) \in Trees
                            /\ With(x, k, a) \in Trees
                            /\ With(x, k, Child(x, k)) = x
                            /\ Child(With(x, k, a), k) = a
                            /\ With(With(x, k, a), k, b) = With(x, k, b)
    BY <2>3, <2>6, ChildRules
  <2>8. ReadPointer(t, q) = Child(x, k) /\ \A a : Put(t, q, a) = Put(t, p, With(x, k, a))
    BY <2>2 DEF x
  <2>9. ReadPointer(t, q) \in Trees /\ Put(t, q, ReadPointer(t, q)) = t
    BY <2>6, <2>7, <2>8
  <2>10. ASSUME NEW a \in Trees
         PROVE  Put(t, q, a) \in Trees /\ ReadPointer(Put(t, q, a), p) = With(x, k, a)
    BY <2>6, <2>7, <2>8
  <2>11. \A a \in Trees : ReadPointer(Put(t, q, a), q) = a
    BY <2>2, <2>7, <2>10
  <2>12. ASSUME NEW a \in Trees, NEW b \in Trees
         PROVE  Put(Put(t, q, a), q, b) = Put(t, q, b)
    <3>1. Put(Put(t, q, a), q, b) = Put(Put(t, q, a), p, With(With(x, k, a), k, b))
      BY <2>2, <2>10
    <3>2. Put(Put(t, q, a), q, b) = Put(Put(t, p, With(x, k, a)), p, With(x, k, b))
      BY <2>7, <2>8, <3>1
    <3>3. QED
      BY <2>6, <2>7, <2>8, <3>2
  <2>13. QED
    BY <2>9, <2>10, <2>11, <2>12
<1>3. \A n \in Nat : n \in S
  <2>1. S \in SUBSET Nat
    OBVIOUS
  <2> HIDE DEF S
  <2>2. QED
    BY <1>1, <1>2, <2>1, Inductive
<1>4. QED
  <2> SUFFICES ASSUME NEW p \in Seq(K), ReadPointer(t, p) # Missing PROVE Lens(p)
    OBVIOUS
  <2>1. Len(p) \in Nat
    OBVIOUS
  <2> HIDE DEF Lens
  <2>2. QED
    BY <1>3, <2>1

\* The patches on documents: what a removal carries is a null.
Operations == {"add", "remove", "replace", "test"}
PatchesOver(Trees, Texts) == [artifact : Texts, operation : Operations, path : Seq(Texts), value : Trees]

\* Every list position has its text.
NumeralsIn(Texts) == Numerals \in [Nat \ {0} -> Texts]

Blindly(parent, leaf, p) ==
  /\ p.operation = "add" /\ leaf # End
  /\ \/ IsObject(parent) /\ Child(parent, leaf) # Missing
     \/ IsList(parent) /\ Position(leaf) > Len(parent.list) + 1

\* What undoes a patch on the object or list that it changes.
Backwards(parent, leaf, p, back, q) ==
  /\ p.operation = "add" => /\ q.operation = "remove"
                            /\ leaf # End => back = leaf
                            /\ leaf = End => IsList(parent) /\ back = Numerals[Len(parent.list) + 1]
  /\ p.operation = "remove" => q.operation = "add" /\ back = leaf /\ q.value = Child(parent, leaf)
  /\ p.operation = "replace" => q.operation = "replace" /\ back = leaf /\ q.value = Child(parent, leaf) /\ Child(parent, leaf) # Missing

\* What a patch does to an object, its inverse takes back.
LEMMA OnObject ==
  ASSUME NEW Trees, NEW Texts, DocumentTrees(Trees, Texts), NEW x \in Trees, IsObject(x), NEW leaf \in Texts, NEW back,
         NEW p, NEW q, p.operation \in {"add", "remove", "replace"},
         p.operation # "remove" => p.value \in Trees,
         Changed(x, leaf, p) # Missing, ~Blindly(x, leaf, p),
         Backwards(x, leaf, p, back, q)
  PROVE  Changed(x, leaf, p) \in Trees /\ Changed(Changed(x, leaf, p), back, q) = x
<1> DEFINE f == x.object
           y == Changed(x, leaf, p)
<1>1. x = Object(f) /\ f \in [DOMAIN f -> Trees] /\ DOMAIN f \subseteq Texts /\ ~IsList(x)
  BY ShapeOf
<1> HIDE DEF f
<1>2. y = ObjectPatched(f, leaf, p)
  BY DEF Changed, f
<1>3. leaf \in DOMAIN f => Child(x, leaf) = f[leaf] /\ f[leaf] # Missing /\ f[leaf] \in Trees
  <2>1. leaf \in DOMAIN f => Child(x, leaf) = f[leaf] /\ f[leaf] \in Trees
    BY <1>1 DEF Child, f
  <2>2. \A u \in Trees : u # Missing
    BY ShapeOf
  <2>3. QED
    BY <2>1, <2>2
<1>4. leaf \notin DOMAIN f => Child(x, leaf) = Missing
  BY <1>1 DEF Child, f
<1>5. ASSUME NEW g, DOMAIN g \subseteq Texts, g \in [DOMAIN g -> Trees], y = Object(g)
      PROVE  y \in Trees /\ Changed(y, back, q) = ObjectPatched(g, back, q)
  <2>1. Object(g) \in Trees /\ IsObject(Object(g)) /\ Object(g).object = g
    BY <1>5, Grown
  <2> HIDE DEF y
  <2>2. QED
    BY <2>1, <1>5 DEF Changed
<1>6. CASE p.operation = "add"
  <2> DEFINE g == Entered(f, leaf, p.value)
  <2>1. leaf # End /\ leaf \notin DOMAIN f /\ q.operation = "remove" /\ back = leaf
    BY <1>1, <1>3, <1>6 DEF Backwards, Blindly
  <2>2. y = Object(g)
    BY <1>2, <1>6 DEF ObjectPatched
  <2>3. DOMAIN g = DOMAIN f \cup {leaf} /\ g \in [DOMAIN g -> Trees]
    BY <1>1, <1>6 DEF Entered
  <2>4. [j \in DOMAIN g \ {leaf} |-> g[j]] = f
    BY <1>1, <2>1 DEF Entered
  <2>5. DOMAIN g \subseteq Texts /\ leaf \in DOMAIN g
    BY <1>1, <2>3
  <2> HIDE DEF g, y
  <2>6. y \in Trees /\ Changed(y, back, q) = ObjectPatched(g, leaf, q)
    BY <1>5, <2>1, <2>2, <2>3, <2>5
  <2>7. ObjectPatched(g, leaf, q) = Object(f)
    BY <2>1, <2>4, <2>5 DEF ObjectPatched
  <2>8. QED
    BY <1>1, <2>6, <2>7 DEF y
<1>7. CASE p.operation = "remove"
  <2> DEFINE g == [j \in DOMAIN f \ {leaf} |-> f[j]]
  <2>1. leaf \in DOMAIN f /\ y = Object(g)
    BY <1>2, <1>7 DEF ObjectPatched
  <2>2. DOMAIN g = DOMAIN f \ {leaf} /\ g \in [DOMAIN g -> Trees] /\ DOMAIN g \subseteq Texts
    BY <1>1
  <2>3. Entered(g, leaf, f[leaf]) = f
    BY <1>1, <2>1 DEF Entered
  <2>4. q.operation = "add" /\ back = leaf /\ q.value = f[leaf]
    BY <1>3, <1>7, <2>1 DEF Backwards
  <2> HIDE DEF g, y
  <2>5. y \in Trees /\ Changed(y, back, q) = ObjectPatched(g, leaf, q)
    BY <1>5, <2>1, <2>2, <2>4
  <2>6. ObjectPatched(g, leaf, q) = Object(f)
    BY <2>3, <2>4 DEF ObjectPatched
  <2>7. QED
    BY <1>1, <2>5, <2>6 DEF y
<1>8. CASE p.operation = "replace"
  <2> DEFINE g == Entered(f, leaf, p.value)
  <2>1. leaf \in DOMAIN f
    BY <1>4, <1>8 DEF Backwards
  <2>2. y = Object(g)
    BY <1>2, <1>8 DEF ObjectPatched
  <2>3. DOMAIN g = DOMAIN f /\ g \in [DOMAIN g -> Trees] /\ DOMAIN g \subseteq Texts
    BY <1>1, <1>8, <2>1 DEF Entered
  <2>4. Entered(g, leaf, f[leaf]) = f
    BY <1>1, <2>1 DEF Entered
  <2>5. q.operation = "replace" /\ back = leaf /\ q.value = f[leaf]
    BY <1>3, <1>8, <2>1 DEF Backwards
  <2> HIDE DEF g, y
  <2>6. y \in Trees /\ Changed(y, back, q) = ObjectPatched(g, leaf, q)
    BY <1>5, <2>2, <2>3, <2>5
  <2>7. ObjectPatched(g, leaf, q) = Object(f)
    BY <2>4, <2>5 DEF ObjectPatched
  <2>8. QED
    BY <1>1, <2>6, <2>7 DEF y
<1>9. QED
  BY <1>6, <1>7, <1>8

\* The elements of two sequences put together.
LEMMA Joined ==
  ASSUME NEW S, NEW a \in Seq(S), NEW b \in Seq(S)
  PROVE  /\ a \o b \in Seq(S) /\ Len(a \o b) = Len(a) + Len(b)
         /\ \A j \in 1..Len(a) : (a \o b)[j] = a[j]
         /\ \A j \in 1..(Len(a) + Len(b)) : j > Len(a) => (a \o b)[j] = b[j - Len(a)]
  BY ConcatProperties

\* The elements of a sequence that has lost one.
LEMMA Removal ==
  ASSUME NEW S, NEW s \in Seq(S), NEW i \in 1..Len(s)
  PROVE  /\ RemoveAt(s, i) \in Seq(S) /\ Len(RemoveAt(s, i)) = Len(s) - 1
         /\ \A j \in 1..(Len(s) - 1) : RemoveAt(s, i)[j] = IF j < i THEN s[j] ELSE s[j + 1]
<1> DEFINE a == SubSeq(s, 1, i - 1)
           b == SubSeq(s, i + 1, Len(s))
<1>1. a \in Seq(S) /\ Len(a) = i - 1 /\ \A j \in 1..(i - 1) : a[j] = s[j]
  OBVIOUS
<1>2. b \in Seq(S) /\ Len(b) = Len(s) - i /\ \A j \in 1..(Len(s) - i) : b[j] = s[i + j]
  OBVIOUS
<1>3. RemoveAt(s, i) = a \o b
  BY DEF RemoveAt
<1> HIDE DEF a, b
<1>4. Len(s) \in Nat /\ i \in Nat /\ i >= 1 /\ i <= Len(s)
  OBVIOUS
<1>5. a \o b \in Seq(S) /\ Len(a \o b) = Len(s) - 1
  <2>1. a \o b \in Seq(S) /\ Len(a \o b) = Len(a) + Len(b)
    BY <1>1, <1>2, Joined
  <2>2. QED
    BY <1>1, <1>2, <1>4, <2>1
<1>6. ASSUME NEW j \in 1..(Len(s) - 1)
      PROVE  (a \o b)[j] = IF j < i THEN s[j] ELSE s[j + 1]
  <2>1. CASE j < i
    <3>1. j \in 1..Len(a)
      BY <1>1, <1>4, <2>1
    <3>2. (a \o b)[j] = a[j]
      BY <1>1, <1>2, <3>1, Joined
    <3>3. QED
      BY <1>1, <2>1, <3>1, <3>2
  <2>2. CASE j >= i
    <3>1. (a \o b)[j] = b[j - (i - 1)]
      <4>1. j \in 1..(Len(a) + Len(b)) /\ j > Len(a)
        BY <1>1, <1>2, <1>4, <2>2
      <4>2. QED
        BY <1>1, <1>2, <4>1, Joined
    <3>2. j - (i - 1) \in 1..(Len(s) - i) /\ i + (j - (i - 1)) = j + 1
      BY <1>4, <2>2
    <3>3. QED
      BY <1>2, <1>4, <2>2, <3>1, <3>2
  <2>3. j < i \/ j >= i
    BY <1>4
  <2>4. QED
    BY <2>1, <2>2, <2>3, Zenon
<1>7. QED
  BY <1>3, <1>5, <1>6

\* r is s with v put in before its i-th element.
Gained(r, S, s, i, v) ==
  /\ r \in Seq(S) /\ Len(r) = Len(s) + 1 /\ r[i] = v
  /\ \A j \in 1..(Len(s) + 1) : j < i => r[j] = s[j]
  /\ \A j \in 1..(Len(s) + 1) : j > i => r[j] = s[j - 1]

\* The elements of a sequence that has gained one.
LEMMA Insertion ==
  ASSUME NEW S, NEW s \in Seq(S), NEW i \in 1..Len(s), NEW v \in S
  PROVE  Gained(InsertAt(s, i, v), S, s, i, v)
<1> DEFINE a == SubSeq(s, 1, i - 1)
           b == SubSeq(s, i, Len(s))
           c == a \o <<v>>
<1>1. a \in Seq(S) /\ Len(a) = i - 1 /\ \A j \in 1..(i - 1) : a[j] = s[j]
  OBVIOUS
<1>2. b \in Seq(S) /\ Len(b) = Len(s) - i + 1 /\ \A j \in 1..(Len(s) - i + 1) : b[j] = s[i - 1 + j]
  OBVIOUS
<1>3. InsertAt(s, i, v) = c \o b
  BY DEF InsertAt
<1> HIDE DEF a, b
<1>4. Len(s) \in Nat /\ i \in Nat /\ i >= 1 /\ i <= Len(s)
  OBVIOUS
<1>5. c \in Seq(S) /\ Len(c) = i /\ c[i] = v /\ \A j \in 1..(i - 1) : c[j] = s[j]
  BY <1>1, <1>4
<1> HIDE DEF c
<1>6. c \o b \in Seq(S) /\ Len(c \o b) = Len(s) + 1
  <2>1. c \o b \in Seq(S) /\ Len(c \o b) = Len(c) + Len(b)
    BY <1>2, <1>5, Joined
  <2>2. QED
    BY <1>2, <1>4, <1>5, <2>1
<1>7. ASSUME NEW j \in 1..i
      PROVE  (c \o b)[j] = c[j]
  BY <1>2, <1>5, Joined
<1>8. ASSUME NEW j \in 1..(Len(s) + 1), j > i
      PROVE  (c \o b)[j] = s[j - 1]
  <2>1. j \in 1..(Len(c) + Len(b)) /\ j > Len(c)
    BY <1>2, <1>4, <1>5, <1>8
  <2>2. (c \o b)[j] = b[j - i]
    BY <1>2, <1>5, <2>1, Joined
  <2>3. j - i \in 1..(Len(s) - i + 1) /\ i - 1 + (j - i) = j - 1
    BY <1>4, <1>8
  <2>4. QED
    BY <1>2, <2>2, <2>3
<1>9. ASSUME NEW j \in 1..(Len(s) + 1), j < i
      PROVE  (c \o b)[j] = s[j]
  <2>1. j \in 1..i /\ j \in 1..(i - 1)
    BY <1>4, <1>9
  <2>2. QED
    BY <1>5, <1>7, <2>1
<1>10. (c \o b)[i] = v
  <2>1. i \in 1..i
    BY <1>4
  <2>2. QED
    BY <1>5, <1>7, <2>1
<1>11. QED
  BY <1>3, <1>6, <1>8, <1>9, <1>10 DEF Gained

\* What is inserted can be removed again, and what is removed inserted again.
LEMMA InsertedAndRemoved ==
  ASSUME NEW S, NEW s \in Seq(S), NEW v \in S
  PROVE  /\ Append(s, v) \in Seq(S) /\ Len(Append(s, v)) = Len(s) + 1
         /\ RemoveAt(Append(s, v), Len(s) + 1) = s
         /\ \A i \in 1..Len(s) : /\ InsertAt(s, i, v) \in Seq(S) /\ Len(InsertAt(s, i, v)) = Len(s) + 1
                                 /\ RemoveAt(InsertAt(s, i, v), i) = s
                                 /\ RemoveAt(s, i) \in Seq(S)
                                 /\ Inserted(RemoveAt(s, i), i, s[i]) = s
<1>1. Append(s, v) \in Seq(S) /\ Len(Append(s, v)) = Len(s) + 1
  OBVIOUS
<1>2. RemoveAt(Append(s, v), Len(s) + 1) = s
  BY DEF RemoveAt
<1>3. ASSUME NEW i \in 1..Len(s)
      PROVE  InsertAt(s, i, v) \in Seq(S) /\ Len(InsertAt(s, i, v)) = Len(s) + 1
  BY Insertion DEF Gained
<1>4. ASSUME NEW i \in 1..Len(s)
      PROVE  RemoveAt(InsertAt(s, i, v), i) = s
  <2> DEFINE r == InsertAt(s, i, v)
             t == RemoveAt(r, i)
  <2>1. /\ r \in Seq(S) /\ Len(r) = Len(s) + 1
        /\ \A j \in 1..(Len(s) + 1) : j < i => r[j] = s[j]
        /\ \A j \in 1..(Len(s) + 1) : j > i => r[j] = s[j - 1]
    <3>1. Gained(r, S, s, i, v)
      BY Insertion
    <3>2. QED
      BY <3>1 DEF Gained
  <2> HIDE DEF r
  <2>2. i \in 1..Len(r) /\ Len(s) \in Nat /\ (Len(s) + 1) - 1 = Len(s)
    BY <2>1
  <2>3. /\ t \in Seq(S) /\ Len(t) = Len(s)
        /\ \A j \in 1..Len(s) : t[j] = IF j < i THEN r[j] ELSE r[j + 1]
    <3>1. /\ RemoveAt(r, i) \in Seq(S) /\ Len(RemoveAt(r, i)) = Len(r) - 1
          /\ \A j \in 1..(Len(r) - 1) : RemoveAt(r, i)[j] = IF j < i THEN r[j] ELSE r[j + 1]
      BY <2>1, <2>2, Removal
    <3>2. Len(r) - 1 = Len(s)
      BY <2>1, <2>2
    <3>3. QED
      BY <3>1, <3>2
  <2> HIDE DEF t
  <2>4. \A j \in 1..Len(s) : t[j] = s[j]
    BY <2>1, <2>2, <2>3
  <2>5. t = s
    BY <2>3, <2>4, SeqEqual
  <2>6. QED
    BY <2>5 DEF t, r
<1>5. ASSUME NEW i \in 1..Len(s)
      PROVE  RemoveAt(s, i) \in Seq(S)
  BY Removal
<1>6. ASSUME NEW i \in 1..Len(s)
      PROVE  Inserted(RemoveAt(s, i), i, s[i]) = s
  <2> DEFINE r == RemoveAt(s, i)
             t == Inserted(r, i, s[i])
  <2>1. /\ r \in Seq(S) /\ Len(r) = Len(s) - 1
        /\ \A j \in 1..(Len(s) - 1) : r[j] = IF j < i THEN s[j] ELSE s[j + 1]
    BY Removal
  <2> HIDE DEF r
  <2>2. i \in 1..Len(s) /\ Len(s) \in Nat /\ s[i] \in S
    OBVIOUS
  <2>3. t \in Seq(S) /\ Len(t) = Len(s) /\ \A j \in 1..Len(s) : t[j] = s[j]
    <3>1. CASE i > Len(r)
      <4>1. t = Append(r, s[i]) /\ i = Len(s)
        BY <2>1, <2>2, <3>1 DEF Inserted
      <4> HIDE DEF t
      <4>2. QED
        BY <2>1, <2>2, <4>1
    <3>2. CASE ~(i > Len(r))
      <4>1. t = InsertAt(r, i, s[i]) /\ i \in 1..Len(r)
        BY <2>1, <2>2, <3>2 DEF Inserted
      <4> HIDE DEF t
      <4>2. s[i] \in S /\ r \in Seq(S) /\ i \in 1..Len(r)
        BY <2>1, <2>2, <4>1
      <4>3. /\ t \in Seq(S) /\ Len(t) = Len(r) + 1
            /\ \A j \in 1..(Len(r) + 1) : (j < i => t[j] = r[j]) /\ (j > i => t[j] = r[j - 1])
            /\ t[i] = s[i]
        <5>1. Gained(t, S, r, i, s[i])
          BY <4>1, <4>2, Insertion
        <5>2. QED
          BY <5>1 DEF Gained
      <4>4. ASSUME NEW j \in 1..Len(s) PROVE t[j] = s[j]
        <5>1. j \in 1..(Len(r) + 1)
          BY <2>1, <2>2
        <5>2. CASE j < i
          <6>1. j \in 1..(Len(s) - 1)
            BY <2>2, <5>2
          <6>2. QED
            BY <2>1, <4>3, <5>1, <5>2, <6>1
        <5>3. CASE j > i
          <6>1. j - 1 \in 1..(Len(s) - 1) /\ ~(j - 1 < i) /\ (j - 1) + 1 = j
            BY <2>2, <5>3
          <6>2. r[j - 1] = s[j]
            BY <2>1, <6>1
          <6>3. QED
            BY <4>3, <5>1, <5>3, <6>2
        <5>4. CASE j = i
          BY <4>3, <5>4
        <5>5. QED
          BY <2>2, <5>2, <5>3, <5>4
      <4>5. Len(t) = Len(s)
        BY <2>1, <2>2, <4>3
      <4>6. QED
        BY <4>3, <4>4, <4>5
    <3>3. QED
      BY <3>1, <3>2
  <2> HIDE DEF t
  <2>4. t = s
    BY <2>3, SeqEqual
  <2>5. QED
    BY <2>4 DEF t, r
<1>7. QED
  BY <1>1, <1>2, <1>3, <1>4, <1>5, <1>6

\* What a patch does to a list, its inverse takes back: an appended element at the list's end,
\* the others at their place.
LEMMA OnList ==
  ASSUME NEW Trees, NEW Texts, DocumentTrees(Trees, Texts), NEW x \in Trees, ~IsObject(x), NEW leaf \in Texts, NEW back,
         NumeralsIn(Texts),
         NEW p, NEW q, p.operation \in {"add", "remove", "replace"},
         p.operation # "remove" => p.value \in Trees,
         Changed(x, leaf, p) # Missing, ~Blindly(x, leaf, p),
         Backwards(x, leaf, p, back, q)
  PROVE  Changed(x, leaf, p) \in Trees /\ Changed(Changed(x, leaf, p), back, q) = x
<1> DEFINE s == x.list
           i == Position(leaf)
           y == Changed(x, leaf, p)
<1>1. IsList(x)
  BY DEF Changed
<1>2. x = ListOf(s) /\ s \in Seq(Trees)
  BY <1>1, ShapeOf
<1>3. /\ i # 0 => i \in Nat \ {0} /\ Numerals[i] = leaf
      /\ \A j \in Nat \ {0} : Position(Numerals[j]) = j /\ Numerals[j] # End
      /\ leaf = End => i = 0
  BY PositionIs, PatchesAssumption DEF NumeralsIn
<1>4. Len(s) \in Nat /\ DOMAIN s = 1..Len(s)
  BY <1>2
<1>5. Child(x, leaf) = IF i \in DOMAIN s THEN s[i] ELSE Missing
  BY <1>1 DEF Child
<1>6. leaf # End => y = ListPatched(s, i, p)
  BY <1>1 DEF Changed
<1>7. ASSUME leaf = End PROVE p.operation = "add" /\ y = ListOf(Append(s, p.value))
  BY <1>1, <1>7 DEF Changed
<1> HIDE DEF s, i
<1>8. ASSUME NEW r \in Seq(Trees), y = ListOf(r), back # End
      PROVE  y \in Trees /\ Changed(y, back, q) = ListPatched(r, Position(back), q)
  <2>1. ListOf(r) \in Trees /\ IsList(ListOf(r)) /\ ~IsObject(ListOf(r)) /\ ListOf(r).list = r
    BY Grown
  <2> HIDE DEF y
  <2>2. QED
    BY <2>1, <1>8 DEF Changed
<1>9. ASSUME p.operation = "add", y = ListOf(Append(s, p.value)), back = Numerals[Len(s) + 1]
      PROVE  y \in Trees /\ Changed(y, back, q) = x
  <2> DEFINE r == Append(s, p.value)
  <2>1. r \in Seq(Trees) /\ Len(r) = Len(s) + 1 /\ RemoveAt(r, Len(s) + 1) = s
    BY <1>2, <1>9, InsertedAndRemoved
  <2>2. Position(back) = Len(s) + 1 /\ back # End /\ q.operation = "remove"
    BY <1>3, <1>4, <1>9 DEF Backwards
  <2> HIDE DEF r, y
  <2>3. y \in Trees /\ Changed(y, back, q) = ListPatched(r, Len(s) + 1, q)
    BY <1>8, <1>9, <2>1, <2>2 DEF r
  <2>4. Len(s) + 1 \in DOMAIN r
    BY <1>4, <2>1
  <2>5. ListPatched(r, Len(s) + 1, q) = ListOf(s)
    BY <2>1, <2>2, <2>4 DEF ListPatched
  <2>6. QED
    BY <1>2, <2>3, <2>5
<1>10. CASE p.operation = "add" /\ leaf = End
  <2>1. back = Numerals[Len(s) + 1]
    BY <1>10 DEF Backwards, s
  <2>2. QED
    BY <1>7, <1>9, <1>10, <2>1
<1>11. CASE p.operation = "add" /\ leaf # End
  <2>1. i # 0 /\ y = ListOf(Inserted(s, i, p.value)) /\ back = leaf /\ q.operation = "remove"
    BY <1>6, <1>11 DEF ListPatched, Backwards
  <2>2. i <= Len(s) + 1
    BY <1>1, <1>3, <1>4, <1>11, <2>1 DEF Blindly, s, i
  <2>3. CASE i = Len(s) + 1
    <3>1. Inserted(s, i, p.value) = Append(s, p.value)
      BY <1>4, <2>3 DEF Inserted
    <3>2. back = Numerals[Len(s) + 1]
      BY <1>3, <2>1, <2>3
    <3>3. QED
      BY <1>9, <1>11, <2>1, <3>1, <3>2
  <2>4. CASE i # Len(s) + 1
    <3> DEFINE r == InsertAt(s, i, p.value)
    <3>1. i \in 1..Len(s) /\ Inserted(s, i, p.value) = r
      BY <1>3, <1>4, <2>1, <2>2, <2>4 DEF Inserted
    <3>2. r \in Seq(Trees) /\ Len(r) = Len(s) + 1 /\ RemoveAt(r, i) = s
      BY <1>2, <1>11, <3>1, InsertedAndRemoved
    <3> HIDE DEF r, y
    <3>3. y \in Trees /\ Changed(y, back, q) = ListPatched(r, i, q)
      BY <1>8, <1>11, <2>1, <3>1, <3>2 DEF i
    <3>4. i \in DOMAIN r
      BY <1>4, <3>1, <3>2
    <3>5. ListPatched(r, i, q) = ListOf(s)
      BY <2>1, <3>2, <3>4 DEF ListPatched
    <3>6. QED
      BY <1>2, <3>3, <3>5 DEF y
  <2>5. QED
    BY <2>3, <2>4
<1>12. CASE p.operation = "remove"
  <2> DEFINE r == RemoveAt(s, i)
  <2>1. leaf # End /\ i \in DOMAIN s /\ y = ListOf(r)
    BY <1>6, <1>7, <1>12 DEF ListPatched
  <2>2. i \in 1..Len(s) /\ s[i] \in Trees
    BY <1>2, <1>4, <2>1
  <2>3. r \in Seq(Trees) /\ Inserted(r, i, s[i]) = s
    BY <1>2, <2>2, InsertedAndRemoved
  <2>4. q.operation = "add" /\ back = leaf /\ q.value = s[i]
    BY <1>5, <1>12, <2>1 DEF Backwards
  <2> HIDE DEF r, y
  <2>5. y \in Trees /\ Changed(y, back, q) = ListPatched(r, i, q)
    BY <1>8, <2>1, <2>3, <2>4 DEF i
  <2>6. i # 0
    BY <2>2
  <2>7. ListPatched(r, i, q) = ListOf(s)
    BY <2>3, <2>4, <2>6 DEF ListPatched
  <2>8. QED
    BY <1>2, <2>5, <2>7 DEF y
<1>13. CASE p.operation = "replace"
  <2> DEFINE r == [s EXCEPT ![i] = p.value]
  <2>1. leaf # End /\ i \in DOMAIN s
    BY <1>3, <1>5, <1>7, <1>13 DEF Backwards
  <2>2. i \in 1..Len(s) /\ s[i] \in Trees /\ y = ListOf(r)
    BY <1>2, <1>4, <1>6, <1>13, <2>1 DEF ListPatched
  <2>3. r \in Seq(Trees) /\ Len(r) = Len(s)
    BY <1>2, <1>13, <2>2, ExceptSeq
  <2>4. [r EXCEPT ![i] = s[i]] = s
    <3>1. s \in [1..Len(s) -> Trees]
      BY <1>2
    <3>2. QED
      BY <2>2, <3>1
  <2>5. q.operation = "replace" /\ back = leaf /\ q.value = s[i]
    BY <1>5, <1>13, <2>1 DEF Backwards
  <2> HIDE DEF r, y
  <2>6. y \in Trees /\ Changed(y, back, q) = ListPatched(r, i, q)
    BY <1>8, <2>1, <2>2, <2>3, <2>5 DEF i
  <2>7. i \in DOMAIN r
    BY <2>2, <2>3
  <2>8. ListPatched(r, i, q) = ListOf(s)
    BY <2>4, <2>5, <2>7 DEF ListPatched
  <2>9. QED
    BY <1>2, <2>6, <2>8 DEF y
<1>14. QED
  BY <1>10, <1>11, <1>12, <1>13

\* A path is what comes before its last key, and that key.
LEMMA FrontAndLast ==
  ASSUME NEW K, NEW s \in Seq(K)
  PROVE  /\ s # <<>> => s = Append(Front(s), Last(s)) /\ Front(s) \in Seq(K) /\ Last(s) \in K
         /\ \A k \in K : Front(Append(s, k)) = s /\ Last(Append(s, k)) = k /\ Append(s, k) # <<>> /\ Append(s, k) \in Seq(K)
<1>1. ASSUME s # <<>>
      PROVE  s = Append(Front(s), Last(s)) /\ Front(s) \in Seq(K) /\ Last(s) \in K
  BY <1>1 DEF Front, Last
<1>2. ASSUME NEW k \in K
      PROVE  Front(Append(s, k)) = s /\ Last(Append(s, k)) = k /\ Append(s, k) # <<>> /\ Append(s, k) \in Seq(K)
  BY DEF Front, Last
<1>3. QED
  BY <1>1, <1>2

\* Documents are not an exception.
LEMMA NotRaised ==
  ASSUME NEW Names, "contract" \in Names, NEW Trees, NEW Texts, NEW docs \in [Names -> Trees]
  PROVE  docs # Raised
<1>1. DOMAIN Raised = {"raised"} /\ DOMAIN docs = Names
  BY DEF Raised
<1>2. QED
  BY <1>1

\* The parts of applying a patch.
LEMMA Applied ==
  ASSUME NEW Trees, NEW Texts, DocumentTrees(Trees, Texts), NEW Names, "contract" \in Names, NEW docs \in [Names -> Trees],
         NEW p, p.path \in Seq(Texts), ApplyPatch(docs, p) # Raised
  PROVE  \E t \in Trees, x \in Trees, F \in Seq(Texts), leaf \in Texts :
           /\ p.artifact \in Names /\ t = docs[p.artifact]
           /\ p.path = Append(F, leaf) /\ Front(p.path) = F /\ Last(p.path) = leaf
           /\ x = ReadPointer(t, F) /\ x # Missing
           /\ Changed(x, leaf, p) # Missing
           /\ ApplyPatch(docs, p) = [docs EXCEPT ![p.artifact] = Put(t, F, Changed(x, leaf, p))]
           /\ ReadPointer(t, p.path) = Child(x, leaf)
<1> DEFINE t == docs[p.artifact]
           F == Front(p.path)
           leaf == Last(p.path)
           x == ReadPointer(t, F)
<1>1. docs # Raised
  BY NotRaised
<1>2. p.artifact \in Names /\ p.path # <<>> /\ Changed(x, leaf, p) # Missing
      /\ ApplyPatch(docs, p) = [docs EXCEPT ![p.artifact] = Put(t, F, Changed(x, leaf, p))]
  BY <1>1 DEF ApplyPatch
<1>3. F \in Seq(Texts) /\ leaf \in Texts /\ p.path = Append(F, leaf)
  BY <1>2, FrontAndLast
<1>4. x # Missing
  <2>1. Changed(Missing, leaf, p) = Missing
    BY DEF Changed, IsObject, IsList, Missing
  <2> HIDE DEF x
  <2>2. QED
    BY <1>2, <2>1
<1>5. t \in Trees
  BY <1>2
<1>6. x \in Trees
  <2> HIDE DEF t, F
  <2>1. QED
    BY <1>3, <1>4, <1>5, PathRules
<1>7. ReadPointer(t, p.path) = Child(x, leaf)
  <2> HIDE DEF t, F, leaf
  <2>1. QED
    BY <1>3, ReadRules
<1>8. QED
  BY <1>2, <1>3, <1>4, <1>5, <1>6, <1>7

\* A test that passes changes nothing.
LEMMA TestsChangeNothing ==
  ASSUME NEW Trees, NEW Texts, DocumentTrees(Trees, Texts), NEW Names, "contract" \in Names, NEW docs \in [Names -> Trees],
         NEW p \in PatchesOver(Trees, Texts), p.operation = "test", ApplyPatch(docs, p) # Raised
  PROVE  ApplyPatch(docs, p) = docs
<1>0. p.path \in Seq(Texts)
  BY DEF PatchesOver
<1>1. PICK t \in Trees, x \in Trees, F \in Seq(Texts), leaf \in Texts :
           /\ p.artifact \in Names /\ t = docs[p.artifact]
           /\ p.path = Append(F, leaf) /\ Front(p.path) = F /\ Last(p.path) = leaf
           /\ x = ReadPointer(t, F) /\ x # Missing
           /\ Changed(x, leaf, p) # Missing
           /\ ApplyPatch(docs, p) = [docs EXCEPT ![p.artifact] = Put(t, F, Changed(x, leaf, p))]
           /\ ReadPointer(t, p.path) = Child(x, leaf)
  BY <1>0, Applied
<1>2. Changed(x, leaf, p) = x
  <2>1. CASE IsObject(x)
    <3>1. x = Object(x.object)
      BY <2>1, ShapeOf
    <3>2. Changed(x, leaf, p) = Object(x.object)
      BY <1>1, <2>1 DEF Changed, ObjectPatched
    <3>3. QED
      BY <3>1, <3>2
  <2>2. CASE ~IsObject(x)
    <3>1. IsList(x)
      BY <1>1, <2>2 DEF Changed
    <3>2. x = ListOf(x.list)
      BY <3>1, ShapeOf
    <3>3. leaf # End /\ Changed(x, leaf, p) = ListPatched(x.list, Position(leaf), p)
      BY <1>1, <2>2, <3>1 DEF Changed
    <3>4. ListPatched(x.list, Position(leaf), p) = ListOf(x.list)
      BY <1>1, <3>3 DEF ListPatched
    <3>5. QED
      BY <3>2, <3>3, <3>4
  <2>3. QED
    BY <2>1, <2>2
<1>3. Put(t, F, x) = t
  BY <1>1, PathRules
<1>4. QED
  BY <1>1, <1>2, <1>3

\* A patch that is applied and not blind has one inverse, which brings the documents back:
\* _rollback_patches() writes it from the documents as they are before the patch.
LEMMA Unapplied ==
  ASSUME NEW Trees, NEW Texts, DocumentTrees(Trees, Texts), JsonNull \in Trees, NumeralsIn(Texts),
         NEW Names, "contract" \in Names, NEW docs \in [Names -> Trees],
         NEW p \in PatchesOver(Trees, Texts), p.operation # "test", ApplyPatch(docs, p) # Raised,
         Reversible(docs[p.artifact], p), ~Blind(docs, p)
  PROVE  \E q \in PatchesOver(Trees, Texts) :
           /\ Inversion(docs[p.artifact], p) = <<q>>
           /\ ApplyPatch(docs, p) \in [Names -> Trees]
           /\ ApplyPatch(ApplyPatch(docs, p), q) = docs
<1>0. p.path \in Seq(Texts) /\ p.artifact \in Texts /\ p.operation \in {"add", "remove", "replace"} /\ p.value \in Trees
  BY DEF PatchesOver, Operations
<1>1. PICK t \in Trees, x \in Trees, F \in Seq(Texts), leaf \in Texts :
           /\ p.artifact \in Names /\ t = docs[p.artifact]
           /\ p.path = Append(F, leaf) /\ Front(p.path) = F /\ Last(p.path) = leaf
           /\ x = ReadPointer(t, F) /\ x # Missing
           /\ Changed(x, leaf, p) # Missing
           /\ ApplyPatch(docs, p) = [docs EXCEPT ![p.artifact] = Put(t, F, Changed(x, leaf, p))]
           /\ ReadPointer(t, p.path) = Child(x, leaf)
  BY <1>0, Applied
<1> DEFINE c == Changed(x, leaf, p)
           a == p.artifact
           new == ApplyPatch(docs, p)
<1>2. ~Blindly(x, leaf, p)
  BY <1>1 DEF Blind, Blindly
<1>3. Child(x, leaf) # Missing => Child(x, leaf) \in Trees
  BY ChildRules
<1>4. PICK q \in PatchesOver(Trees, Texts), back \in Texts :
        /\ Inversion(t, p) = <<q>> /\ q.artifact = a /\ q.path = Append(F, back)
        /\ Backwards(x, leaf, p, back, q)
  <2>1. CASE p.operation = "add"
    <3> DEFINE back == IF leaf = End THEN Numerals[Len(x.list) + 1] ELSE leaf
               q == Patch(a, "remove", Append(F, back), JsonNull)
    <3>1. ResolvedAddPath(t, p.path) # <<>>
      BY <1>1, <2>1 DEF Reversible
    <3>2. leaf = End => IsList(x)
      BY <1>1, <3>1 DEF ResolvedAddPath
    <3>3. ResolvedAddPath(t, p.path) = Append(F, back)
      BY <1>1, <3>2 DEF ResolvedAddPath
    <3>4. back \in Texts
      <4>1. leaf = End => Len(x.list) \in Nat
        BY <3>2, ShapeOf
      <4>2. QED
        BY <4>1 DEF NumeralsIn
    <3> HIDE DEF back
    <3>5. Append(F, back) \in Seq(Texts)
      BY <3>4
    <3>6. q \in PatchesOver(Trees, Texts) /\ q.artifact = a /\ q.path = Append(F, back) /\ q.operation = "remove"
      BY <1>0, <3>5 DEF Patch, PatchesOver, Operations
    <3>7. Inversion(t, p) = <<q>>
      BY <2>1, <3>3 DEF Inversion
    <3> HIDE DEF q
    <3>8. Backwards(x, leaf, p, back, q)
      BY <2>1, <3>2, <3>6 DEF Backwards, back
    <3>9. QED
      BY <3>4, <3>6, <3>7, <3>8
  <2>2. CASE p.operation \in {"remove", "replace"}
    <3> DEFINE o == IF p.operation = "remove" THEN "add" ELSE "replace"
               q == Patch(a, o, p.path, Child(x, leaf))
    <3>1. Child(x, leaf) # Missing
      BY <1>1, <2>2 DEF Reversible
    <3>2. Inversion(t, p) = <<q>>
      BY <1>1, <2>2 DEF Inversion
    <3>3. q \in PatchesOver(Trees, Texts) /\ q.artifact = a /\ q.path = Append(F, leaf) /\ q.operation = o /\ q.value = Child(x, leaf)
      BY <1>0, <1>1, <1>3, <3>1 DEF Patch, PatchesOver, Operations
    <3> HIDE DEF q
    <3>4. Backwards(x, leaf, p, leaf, q)
      BY <2>2, <3>1, <3>3 DEF Backwards
    <3>5. QED
      BY <3>2, <3>3, <3>4
  <2>3. QED
    BY <1>0, <2>1, <2>2
<1>5. c \in Trees /\ Changed(c, back, q) = x
  <2>1. CASE IsObject(x)
    BY <1>0, <1>1, <1>2, <1>4, <2>1, OnObject
  <2>2. CASE ~IsObject(x)
    BY <1>0, <1>1, <1>2, <1>4, <2>2, OnList
  <2>3. QED
    BY <2>1, <2>2
<1>6. /\ Put(t, F, x) = t /\ Put(t, F, c) \in Trees /\ ReadPointer(Put(t, F, c), F) = c
      /\ Put(Put(t, F, c), F, x) = t
  <2> HIDE DEF c
  <2>1. Put(t, F, x) = t /\ Put(Put(t, F, c), F, x) = Put(t, F, x) /\ Put(t, F, c) \in Trees /\ ReadPointer(Put(t, F, c), F) = c
    BY <1>1, <1>5, PathRules
  <2>2. QED
    BY <2>1
<1>7. new \in [Names -> Trees] /\ new[a] = Put(t, F, c) /\ DOMAIN new = Names
  BY <1>1, <1>6
<1>8. ApplyPatch(new, q) = docs
  <2> HIDE DEF new, c, a
  <2>1. new # Raised
    BY <1>7, NotRaised
  <2>2. a \in Names /\ q.path # <<>> /\ Front(q.path) = F /\ Last(q.path) = back
    <3>1. Append(F, back) # <<>> /\ Front(Append(F, back)) = F /\ Last(Append(F, back)) = back
      BY FrontAndLast
    <3>2. QED
      BY <1>1, <1>4, <3>1 DEF a
  <2>3. ApplyPatch(new, q) = [new EXCEPT ![a] = Put(new[a], F, x)]
    BY <1>1, <1>4, <1>5, <1>6, <1>7, <2>1, <2>2 DEF ApplyPatch
  <2>4. [new EXCEPT ![a] = t] = docs
    BY <1>1, <1>7 DEF new, a
  <2>5. QED
    BY <1>6, <1>7, <2>3, <2>4
<1>9. QED
  BY <1>1, <1>4, <1>7, <1>8

IsApplied(f, docs, ps) == f = [i \in 0..Len(ps) |-> IF i = 0 THEN docs ELSE ApplyPatch(f[i - 1], ps[i])]

\* The recursive function of ApplyAll is there.
LEMMA ApplyExists ==
  ASSUME NEW K, NEW ps \in Seq(K), NEW docs
  PROVE  \E f : IsApplied(f, docs, ps)
<1> DEFINE To(f, n) == f = [i \in 0..n |-> IF i = 0 THEN docs ELSE ApplyPatch(f[i - 1], ps[i])]
           S == {n \in Nat : \E f : To(f, n)}
<1>1. 0 \in S
  <2>1. To([i \in 0..0 |-> docs], 0)
    OBVIOUS
  <2> HIDE DEF To
  <2>2. QED
    BY <2>1
<1>2. ASSUME NEW n \in S PROVE n + 1 \in S
  <2>1. PICK f : To(f, n)
    OBVIOUS
  <2> DEFINE g == [i \in 0..(n + 1) |-> IF i = 0 THEN docs ELSE ApplyPatch(f[i - 1], ps[i])]
  <2>2. \A i \in 0..n : g[i] = f[i]
    BY <2>1
  <2>3. \A i \in 0..(n + 1) : i # 0 => i - 1 \in 0..n
    <3>1. n \in Nat
      OBVIOUS
    <3>2. QED
      BY <3>1
  <2>4. g = [i \in 0..(n + 1) |-> IF i = 0 THEN docs ELSE ApplyPatch(g[i - 1], ps[i])]
    <3>1. \A i \in 0..(n + 1) : i # 0 => g[i - 1] = f[i - 1]
      <4> HIDE DEF g
      <4>1. QED
        BY <2>2, <2>3
    <3>2. QED
      BY <3>1
  <2> HIDE DEF g
  <2>5. To(g, n + 1)
    BY <2>4
  <2> HIDE DEF To
  <2>6. QED
    BY <2>5
<1>3. Len(ps) \in Nat
  OBVIOUS
<1>4. Len(ps) \in S
  <2> HIDE DEF S
  <2>1. S \in SUBSET Nat
    BY DEF S
  <2>2. QED
    BY <1>1, <1>2, <1>3, <2>1, Inductive
<1>5. QED
  BY <1>4 DEF IsApplied

\* And ApplyAll is its last value.
LEMMA ApplyIs ==
  ASSUME NEW K, NEW ps \in Seq(K), NEW docs
  PROVE  \E f : IsApplied(f, docs, ps) /\ ApplyAll(docs, ps) = f[Len(ps)]
<1>1. ApplyAll(docs, ps) = (CHOOSE f : IsApplied(f, docs, ps))[Len(ps)]
  BY DEF ApplyAll, IsApplied
<1>2. QED
  BY <1>1, ApplyExists

\* Patches are applied one after the other.
LEMMA ApplyRules ==
  ASSUME NEW K, NEW ps \in Seq(K), NEW p \in K, NEW docs
  PROVE  /\ ApplyAll(docs, <<>>) = docs
         /\ ApplyAll(docs, Append(ps, p)) = ApplyPatch(ApplyAll(docs, ps), p)
<1>1. ApplyAll(docs, <<>>) = docs
  <2>1. <<>> \in Seq(K) /\ Len(<<>>) = 0
    OBVIOUS
  <2>2. PICK f : IsApplied(f, docs, <<>>) /\ ApplyAll(docs, <<>>) = f[0]
    BY <2>1, ApplyIs
  <2>3. QED
    BY <2>2 DEF IsApplied
<1>2. ApplyAll(docs, Append(ps, p)) = ApplyPatch(ApplyAll(docs, ps), p)
  <2> DEFINE q == Append(ps, p)
             n == Len(ps)
  <2>1. /\ q \in Seq(K) /\ n \in Nat /\ Len(q) = n + 1 /\ q[n + 1] = p
        /\ \A i \in 1..n : q[i] = ps[i]
    OBVIOUS
  <2>2. PICK f : IsApplied(f, docs, ps) /\ ApplyAll(docs, ps) = f[n]
    BY ApplyIs
  <2>3. PICK g : IsApplied(g, docs, q) /\ ApplyAll(docs, q) = g[n + 1]
    BY <2>1, ApplyIs
  <2> HIDE DEF q, n
  <2> DEFINE S == {i \in Nat : i <= n => f[i] = g[i]}
  <2>4. 0 \in S
    BY <2>1, <2>2, <2>3 DEF IsApplied, n
  <2>5. ASSUME NEW i \in S PROVE i + 1 \in S
    <3>1. SUFFICES ASSUME i + 1 <= n PROVE f[i + 1] = g[i + 1]
      OBVIOUS
    <3>2. i + 1 \in 0..n /\ i + 1 \in 0..(n + 1) /\ i + 1 \in 1..n /\ i + 1 # 0 /\ (i + 1) - 1 = i /\ f[i] = g[i]
      BY <2>1, <3>1
    <3>3. f[i + 1] = ApplyPatch(f[i], ps[i + 1])
      BY <2>2, <3>2 DEF IsApplied, n
    <3>4. g[i + 1] = ApplyPatch(g[i], q[i + 1])
      BY <2>1, <2>3, <3>2 DEF IsApplied
    <3>5. QED
      BY <2>1, <3>2, <3>3, <3>4
  <2>6. f[n] = g[n]
    <3>1. n \in S
      <4>1. S \in SUBSET Nat
        OBVIOUS
      <4> HIDE DEF S
      <4>2. QED
        BY <2>1, <2>4, <2>5, <4>1, Inductive
    <3>2. QED
      BY <2>1, <3>1
  <2>7. g[n + 1] = ApplyPatch(g[n], p)
    <3>1. n + 1 \in 0..(n + 1) /\ n + 1 # 0 /\ (n + 1) - 1 = n
      BY <2>1
    <3>2. QED
      BY <2>1, <2>3, <3>1 DEF IsApplied
  <2>8. QED
    BY <2>2, <2>3, <2>6, <2>7 DEF q
<1>3. QED
  BY <1>1, <1>2

\* The first patch can be applied before the others.
LEMMA ApplyFirst ==
  ASSUME NEW K, NEW p \in K, NEW docs
  PROVE  \A ps \in Seq(K) : ApplyAll(docs, <<p>> \o ps) = ApplyAll(ApplyPatch(docs, p), ps)
<1> DEFINE first == ApplyPatch(docs, p)
           S == {n \in Nat : \A ps \in Seq(K) : Len(ps) = n => ApplyAll(docs, <<p>> \o ps) = ApplyAll(first, ps)}
<1>1. 0 \in S
  <2> SUFFICES ASSUME NEW ps \in Seq(K), Len(ps) = 0 PROVE ApplyAll(docs, <<p>> \o ps) = ApplyAll(first, ps)
    OBVIOUS
  <2> DEFINE e == <<>>
  <2>1. ps = e /\ <<p>> \o ps = Append(e, p) /\ e \in Seq(K)
    OBVIOUS
  <2> HIDE DEF e
  <2>2. ApplyAll(docs, e) = docs /\ ApplyAll(first, e) = first
    <3>1. \A d : ApplyAll(d, <<>>) = d
      BY <2>1, ApplyRules
    <3>2. QED
      BY <3>1 DEF e
  <2>3. ApplyAll(docs, Append(e, p)) = ApplyPatch(ApplyAll(docs, e), p)
    BY <2>1, ApplyRules
  <2>4. QED
    BY <2>1, <2>2, <2>3
<1>2. ASSUME NEW n \in S PROVE n + 1 \in S
  <2> SUFFICES ASSUME NEW qs \in Seq(K), Len(qs) = n + 1 PROVE ApplyAll(docs, <<p>> \o qs) = ApplyAll(first, qs)
    OBVIOUS
  <2> DEFINE ps == SubSeq(qs, 1, n)
             q == qs[n + 1]
             all == <<p>> \o ps
  <2>1. n \in Nat /\ qs = Append(ps, q) /\ ps \in Seq(K) /\ q \in K /\ Len(ps) = n
    OBVIOUS
  <2> HIDE DEF ps, q
  <2>2. all \in Seq(K) /\ <<p>> \o qs = Append(all, q)
    BY <2>1
  <2> HIDE DEF first
  <2>3. ApplyAll(docs, all) = ApplyAll(first, ps)
    BY <2>1
  <2> HIDE DEF all
  <2>4. ApplyAll(docs, Append(all, q)) = ApplyPatch(ApplyAll(docs, all), q) /\ ApplyAll(first, Append(ps, q)) = ApplyPatch(ApplyAll(first, ps), q)
    BY <2>1, <2>2, ApplyRules
  <2>5. QED
    BY <2>1, <2>2, <2>3, <2>4
<1>3. \A n \in Nat : n \in S
  <2>1. S \in SUBSET Nat
    OBVIOUS
  <2> HIDE DEF S
  <2>2. QED
    BY <1>1, <1>2, <2>1, Inductive
<1>4. QED
  <2> SUFFICES ASSUME NEW ps \in Seq(K) PROVE ApplyAll(docs, <<p>> \o ps) = ApplyAll(first, ps)
    OBVIOUS
  <2>1. Len(ps) \in Nat
    OBVIOUS
  <2>2. QED
    BY <1>3, <2>1

-----------------------------------------------------------------------------
\* The patches that take the others back.
UndoneAll(docs, ps) ==
  LET so[i \in 0..Len(ps)] == IF i = 0 THEN [docs |-> docs, rollback |-> <<>>] ELSE Undone(so[i - 1], ps[i]) IN so[Len(ps)]

Nothing(docs) == [docs |-> docs, rollback |-> <<>>]

\* RollbackPatches, in terms of UndoneAll.
LEMMA RollbackIs ==
  ASSUME NEW docs, NEW ps
  PROVE  RollbackPatches(docs, ps) = IF UndoneAll(docs, ps).docs = Raised THEN NoPatches ELSE UndoneAll(docs, ps).rollback
BY DEF RollbackPatches, UndoneAll

IsUndone(f, docs, ps) == f = [i \in 0..Len(ps) |-> IF i = 0 THEN Nothing(docs) ELSE Undone(f[i - 1], ps[i])]

\* The recursive function of UndoneAll is there.
LEMMA UndoneExists ==
  ASSUME NEW K, NEW ps \in Seq(K), NEW docs
  PROVE  \E f : IsUndone(f, docs, ps)
<1> DEFINE To(f, n) == f = [i \in 0..n |-> IF i = 0 THEN Nothing(docs) ELSE Undone(f[i - 1], ps[i])]
           S == {n \in Nat : \E f : To(f, n)}
<1>1. 0 \in S
  <2>1. To([i \in 0..0 |-> Nothing(docs)], 0)
    OBVIOUS
  <2> HIDE DEF To
  <2>2. QED
    BY <2>1
<1>2. ASSUME NEW n \in S PROVE n + 1 \in S
  <2>1. PICK f : To(f, n)
    OBVIOUS
  <2> DEFINE g == [i \in 0..(n + 1) |-> IF i = 0 THEN Nothing(docs) ELSE Undone(f[i - 1], ps[i])]
  <2>2. \A i \in 0..n : g[i] = f[i]
    BY <2>1
  <2>3. \A i \in 0..(n + 1) : i # 0 => i - 1 \in 0..n
    <3>1. n \in Nat
      OBVIOUS
    <3>2. QED
      BY <3>1
  <2>4. g = [i \in 0..(n + 1) |-> IF i = 0 THEN Nothing(docs) ELSE Undone(g[i - 1], ps[i])]
    <3>1. \A i \in 0..(n + 1) : i # 0 => g[i - 1] = f[i - 1]
      <4> HIDE DEF g
      <4>1. QED
        BY <2>2, <2>3
    <3>2. QED
      BY <3>1
  <2> HIDE DEF g
  <2>5. To(g, n + 1)
    BY <2>4
  <2> HIDE DEF To
  <2>6. QED
    BY <2>5
<1>3. Len(ps) \in Nat
  OBVIOUS
<1>4. Len(ps) \in S
  <2> HIDE DEF S
  <2>1. S \in SUBSET Nat
    BY DEF S
  <2>2. QED
    BY <1>1, <1>2, <1>3, <2>1, Inductive
<1>5. QED
  BY <1>4 DEF IsUndone

\* And UndoneAll is its last value.
LEMMA UndoneIs ==
  ASSUME NEW K, NEW ps \in Seq(K), NEW docs
  PROVE  \E f : IsUndone(f, docs, ps) /\ UndoneAll(docs, ps) = f[Len(ps)]
<1>1. UndoneAll(docs, ps) = (CHOOSE f : IsUndone(f, docs, ps))[Len(ps)]
  BY DEF UndoneAll, IsUndone, Nothing
<1>2. QED
  BY <1>1, UndoneExists

\* Each patch is undone after what follows it.
LEMMA UndoneRules ==
  ASSUME NEW K, NEW ps \in Seq(K), NEW p \in K, NEW docs
  PROVE  /\ UndoneAll(docs, <<>>) = Nothing(docs)
         /\ UndoneAll(docs, Append(ps, p)) = Undone(UndoneAll(docs, ps), p)
<1>1. UndoneAll(docs, <<>>) = Nothing(docs)
  <2>1. <<>> \in Seq(K) /\ Len(<<>>) = 0
    OBVIOUS
  <2>2. PICK f : IsUndone(f, docs, <<>>) /\ UndoneAll(docs, <<>>) = f[0]
    BY <2>1, UndoneIs
  <2>3. QED
    BY <2>2 DEF IsUndone
<1>2. UndoneAll(docs, Append(ps, p)) = Undone(UndoneAll(docs, ps), p)
  <2> DEFINE q == Append(ps, p)
             n == Len(ps)
  <2>1. /\ q \in Seq(K) /\ n \in Nat /\ Len(q) = n + 1 /\ q[n + 1] = p
        /\ \A i \in 1..n : q[i] = ps[i]
    OBVIOUS
  <2>2. PICK f : IsUndone(f, docs, ps) /\ UndoneAll(docs, ps) = f[n]
    BY UndoneIs
  <2>3. PICK g : IsUndone(g, docs, q) /\ UndoneAll(docs, q) = g[n + 1]
    BY <2>1, UndoneIs
  <2> HIDE DEF q, n
  <2> DEFINE S == {i \in Nat : i <= n => f[i] = g[i]}
  <2>4. 0 \in S
    BY <2>1, <2>2, <2>3 DEF IsUndone, n
  <2>5. ASSUME NEW i \in S PROVE i + 1 \in S
    <3>1. SUFFICES ASSUME i + 1 <= n PROVE f[i + 1] = g[i + 1]
      OBVIOUS
    <3>2. i + 1 \in 0..n /\ i + 1 \in 0..(n + 1) /\ i + 1 \in 1..n /\ i + 1 # 0 /\ (i + 1) - 1 = i /\ f[i] = g[i]
      BY <2>1, <3>1
    <3>3. f[i + 1] = Undone(f[i], ps[i + 1])
      BY <2>2, <3>2 DEF IsUndone, n
    <3>4. g[i + 1] = Undone(g[i], q[i + 1])
      BY <2>1, <2>3, <3>2 DEF IsUndone
    <3>5. QED
      BY <2>1, <3>2, <3>3, <3>4
  <2>6. f[n] = g[n]
    <3>1. n \in S
      <4>1. S \in SUBSET Nat
        OBVIOUS
      <4> HIDE DEF S
      <4>2. QED
        BY <2>1, <2>4, <2>5, <4>1, Inductive
    <3>2. QED
      BY <2>1, <3>1
  <2>7. g[n + 1] = Undone(g[n], p)
    <3>1. n + 1 \in 0..(n + 1) /\ n + 1 # 0 /\ (n + 1) - 1 = n
      BY <2>1
    <3>2. QED
      BY <2>1, <2>3, <3>1 DEF IsUndone
  <2>8. QED
    BY <2>2, <2>3, <2>6, <2>7 DEF q
<1>3. QED
  BY <1>1, <1>2

\* The rollback of patches that are applied, none of them blindly, brings the documents back.
LEMMA AllUnapplied ==
  ASSUME NEW Trees, NEW Texts, DocumentTrees(Trees, Texts), JsonNull \in Trees, NumeralsIn(Texts),
         NEW Names, "contract" \in Names, NEW docs \in [Names -> Trees]
  PROVE  \A ps \in Seq(PatchesOver(Trees, Texts)) :
           UndoneAll(docs, ps).docs # Raised /\ ApplyAll(docs, ps) # Raised /\ Sighted(docs, ps)
             => ApplyAll(ApplyAll(docs, ps), UndoneAll(docs, ps).rollback) = docs
<1> DEFINE P == PatchesOver(Trees, Texts)
<1> HIDE DEF P
<1> DEFINE Goes(ps) == UndoneAll(docs, ps).docs # Raised /\ ApplyAll(docs, ps) # Raised /\ Sighted(docs, ps)
           Back(ps) == /\ UndoneAll(docs, ps) = [docs |-> ApplyAll(docs, ps), rollback |-> UndoneAll(docs, ps).rollback]
                       /\ ApplyAll(docs, ps) \in [Names -> Trees]
                       /\ UndoneAll(docs, ps).rollback \in Seq(P)
                       /\ ApplyAll(ApplyAll(docs, ps), UndoneAll(docs, ps).rollback) = docs
           Claim(ps) == Goes(ps) => Back(ps)
           S == {n \in Nat : \A ps \in Seq(P) : Len(ps) = n => Claim(ps)}
<1>1. 0 \in S
  <2> SUFFICES ASSUME NEW ps \in Seq(P), Len(ps) = 0 PROVE Back(ps)
    <3>1. \A ps \in Seq(P) : Len(ps) = 0 => Claim(ps)
      OBVIOUS
    <3> HIDE DEF Claim
    <3>2. QED
      BY <3>1
  <2> DEFINE e == <<>>
  <2>1. ps = e /\ e \in Seq(P)
    <3> HIDE DEF P
    <3>1. QED
      OBVIOUS
  <2>2. e \in Seq({0}) /\ 0 \in {0}
    OBVIOUS
  <2> HIDE DEF e
  <2>3. \A d : ApplyAll(d, <<>>) = d
    BY <2>2, ApplyRules
  <2>4. UndoneAll(docs, <<>>) = [docs |-> docs, rollback |-> <<>>]
    BY <2>2, UndoneRules DEF Nothing
  <2>5. /\ UndoneAll(docs, ps) = [docs |-> docs, rollback |-> e] /\ ApplyAll(docs, ps) = docs
        /\ ApplyAll(docs, e) = docs /\ e \in Seq(P)
    BY <2>1, <2>3, <2>4 DEF e
  <2>6. UndoneAll(docs, ps).rollback = e
    BY <2>5
  <2>7. QED
    BY <2>5, <2>6, Zenon
<1>2. ASSUME NEW n \in S PROVE n + 1 \in S
  <2>0. n \in Nat /\ n + 1 \in Nat /\ \A ps \in Seq(P) : Len(ps) = n => Claim(ps)
    OBVIOUS
  <2> SUFFICES ASSUME NEW qs \in Seq(P), Len(qs) = n + 1, Goes(qs) PROVE Back(qs)
    <3>1. \A qs \in Seq(P) : Len(qs) = n + 1 => Claim(qs)
      OBVIOUS
    <3> HIDE DEF Claim
    <3>2. QED
      BY <2>0, <3>1
  <2> DEFINE ps == SubSeq(qs, 1, n)
             p == qs[n + 1]
             so == UndoneAll(docs, ps)
             d == ApplyAll(docs, ps)
  <2>1. n \in Nat /\ qs = Append(ps, p) /\ ps \in Seq(P) /\ p \in P /\ Len(ps) = n
    BY <2>0
  <2>2. \A i \in DOMAIN ps : SubSeq(ps, 1, i - 1) = SubSeq(qs, 1, i - 1) /\ ps[i] = qs[i] /\ i \in DOMAIN qs
    BY <2>0
  <2>3. n + 1 \in DOMAIN qs /\ (n + 1) - 1 = n
    BY <2>1
  <2>4. Sighted(docs, ps) /\ ~Blind(d, p)
    BY <2>2, <2>3 DEF Sighted
  <2> HIDE DEF ps, p, P
  <2>5. UndoneAll(docs, qs) = Undone(so, p) /\ ApplyAll(docs, qs) = ApplyPatch(d, p)
    BY <2>1, ApplyRules, UndoneRules
  <2>6. ApplyPatch(d, p) # Raised /\ d # Raised
    BY <2>5 DEF ApplyPatch
  <2>7. Undone(so, p).docs # Raised
    BY <2>5
  <2>8. so.docs # Raised
    BY <2>7 DEF Undone
  <2> DEFINE rb == so.rollback
  <2>9. so = [docs |-> d, rollback |-> rb] /\ d \in [Names -> Trees] /\ rb \in Seq(P) /\ ApplyAll(d, rb) = docs
    <3>1. Claim(ps)
      BY <2>0, <2>1
    <3>2. QED
      BY <2>4, <2>6, <2>8, <3>1
  <2> HIDE DEF rb, so, d
  <2> DEFINE inverse == Inversion(d[p.artifact], p)
             new == [docs |-> Simulated(d, p), rollback |-> inverse \o rb]
             raised == [docs |-> Raised, rollback |-> rb]
  <2>10. Reversible(d[p.artifact], p) /\ Undone(so, p) = new
    <3>1. ~(p.artifact \notin DOMAIN d \/ p.path = <<>>)
      BY <2>6 DEF ApplyPatch
    <3>2. so.docs = d /\ so.rollback = rb /\ [so EXCEPT !.docs = Raised] = raised /\ d # Raised
      BY <2>6, <2>9
    <3>3. Undone(so, p) = IF ~Reversible(d[p.artifact], p) THEN raised ELSE new
      <4> HIDE DEF raised
      <4>1. QED
        BY <3>1, <3>2 DEF Undone
    <3>4. raised.docs = Raised
      OBVIOUS
    <3> HIDE DEF raised, new
    <3>5. QED
      BY <2>7, <3>3, <3>4
  <2>11. ASSUME inverse \o rb \in Seq(P), Simulated(d, p) = ApplyPatch(d, p), ApplyPatch(d, p) \in [Names -> Trees],
                ApplyAll(ApplyPatch(d, p), inverse \o rb) = docs
         PROVE  Back(qs)
    <3>1. /\ UndoneAll(docs, qs) = [docs |-> ApplyAll(docs, qs), rollback |-> inverse \o rb]
          /\ ApplyAll(docs, qs) \in [Names -> Trees] /\ ApplyAll(ApplyAll(docs, qs), inverse \o rb) = docs
      BY <2>5, <2>10, <2>11
    <3>2. UndoneAll(docs, qs).rollback = inverse \o rb
      BY <3>1
    <3>3. QED
      BY <2>11, <3>1, <3>2, Zenon
  <2>12. CASE p.operation = "test"
    <3>1. ApplyPatch(d, p) = d
      BY <2>1, <2>6, <2>9, <2>12, TestsChangeNothing DEF P
    <3>2. Simulated(d, p) = d /\ inverse = <<>>
      BY <2>12 DEF Simulated, Inversion
    <3>3. inverse \o rb = rb
      BY <2>9, <3>2
    <3>4. QED
      BY <2>9, <2>11, <3>1, <3>2, <3>3
  <2>13. CASE p.operation # "test"
    <3>1. PICK q \in P : /\ inverse = <<q>>
                         /\ ApplyPatch(d, p) \in [Names -> Trees]
                         /\ ApplyPatch(ApplyPatch(d, p), q) = d
      <4>1. p \in PatchesOver(Trees, Texts) /\ d \in [Names -> Trees] /\ Reversible(d[p.artifact], p)
        BY <2>1, <2>9, <2>10 DEF P
      <4>2. QED
        BY <2>4, <2>6, <2>13, <4>1, Unapplied DEF P
    <3>2. Simulated(d, p) = ApplyPatch(d, p)
      BY <2>13 DEF Simulated
    <3> HIDE DEF inverse
    <3>3. inverse \o rb \in Seq(P)
      BY <2>9, <3>1
    <3>4. ApplyAll(ApplyPatch(d, p), inverse \o rb) = docs
      <4>1. ApplyAll(ApplyPatch(d, p), <<q>> \o rb) = ApplyAll(ApplyPatch(ApplyPatch(d, p), q), rb)
        BY <2>9, ApplyFirst
      <4>2. QED
        BY <2>9, <3>1, <4>1
    <3>5. QED
      BY <2>11, <3>1, <3>2, <3>3, <3>4
  <2>14. QED
    BY <2>12, <2>13
<1>3. \A n \in Nat : n \in S
  <2>1. S \in SUBSET Nat
    OBVIOUS
  <2> HIDE DEF S
  <2>2. QED
    BY <1>1, <1>2, <2>1, Inductive
<1>4. QED
  <2> SUFFICES ASSUME NEW ps \in Seq(P), Goes(ps) PROVE Back(ps)
    BY DEF P
  <2>1. Len(ps) \in Nat
    OBVIOUS
  <2> HIDE DEF Goes, Back
  <2>2. QED
    BY <1>3, <2>1

\* What Least finds is in the set.
LEMMA LeastIn ==
  ASSUME NEW S \in SUBSET Nat, Least(S) # 0
  PROVE  Least(S) \in S
<1>1. S # {}
  BY DEF Least
<1>2. \E i \in S : \A j \in S : i <= j
  BY <1>1, LeastNumber
<1>3. QED
  BY <1>1, <1>2 DEF Least

\* What is found in a document.
LEMMA Found ==
  ASSUME NEW Trees, NEW Texts, DocumentTrees(Trees, Texts), NEW t \in Trees \cup {Missing}
  PROVE  /\ \A k : Child(t, k) \in Trees \cup {Missing}
         /\ Elements(t) \in Seq(Trees)
<1>1. ASSUME NEW k PROVE Child(t, k) \in Trees \cup {Missing}
  <2>1. CASE t \in Trees
    BY <2>1, ChildRules
  <2>2. CASE t = Missing
    BY <2>2 DEF Child, IsObject, IsList, Missing
  <2>3. QED
    BY <2>1, <2>2
<1>2. Elements(t) \in Seq(Trees)
  <2>1. CASE t \in Trees
    BY <2>1, ShapeOf DEF Elements
  <2>2. CASE t = Missing
    BY <2>2 DEF Elements, IsList, Missing
  <2>3. QED
    BY <2>1, <2>2
<1>3. QED
  BY <1>1, <1>2

\* What FirstIn finds is a place of the list.
LEMMA FirstInIs ==
  ASSUME NEW Trees, NEW list \in Seq(Trees), NEW key, NEW v, FirstIn(list, key, v) # 0
  PROVE  FirstIn(list, key, v) \in 1..Len(list)
<1> DEFINE S == {i \in DOMAIN list : Child(list[i], key) = Leaf(v)}
<1>1. S \in SUBSET Nat /\ S \in SUBSET (1..Len(list))
  OBVIOUS
<1>2. FirstIn(list, key, v) = Least(S)
  BY DEF FirstIn
<1> HIDE DEF S
<1>3. QED
  BY <1>1, <1>2, LeastIn

\* The path to the drifted action, where a route has it.
LEMMA Located ==
  ASSUME NEW Trees, NEW Texts, DocumentTrees(Trees, Texts), NumeralsIn(Texts), {"routes", "actions"} \subseteq Texts,
         NEW doc \in Trees, NEW id, RouteIndex(doc, id) # 0
  PROVE  ActionLocation(doc, id) \in Seq(Texts)
<1> DEFINE R == Routes(doc)
           S == {i \in DOMAIN R : HasAction(R[i], id)}
           r == RouteIndex(doc, id)
           a == FirstIn(Actions(R[r]), "action_id", id)
<1>1. R \in Seq(Trees)
  BY Found DEF Routes
<1>2. r = Least(S)
  BY DEF RouteIndex
<1> HIDE DEF R, r
<1>3. r \in DOMAIN R /\ HasAction(R[r], id) /\ r \in Nat \ {0}
  <2>1. S \in SUBSET Nat
    BY <1>1
  <2>2. Least(S) # 0
    BY <1>2 DEF r
  <2>3. Least(S) \in S
    BY <2>1, <2>2, LeastIn
  <2>4. QED
    BY <1>1, <1>2, <2>3
<1>4. a \in Nat \ {0}
  <2>1. R[r] \in Trees
    BY <1>1, <1>3
  <2>2. Actions(R[r]) \in Seq(Trees)
    BY <2>1, Found DEF Actions
  <2>3. a \in 1..Len(Actions(R[r]))
    BY <1>3, <2>2, FirstInIs DEF HasAction
  <2>4. QED
    BY <2>2, <2>3
<1> HIDE DEF a
<1>5. Numerals[r] \in Texts /\ Numerals[a] \in Texts
  BY <1>3, <1>4 DEF NumeralsIn
<1>6. ActionLocation(doc, id) = <<"routes", Numerals[r], "actions", Numerals[a]>>
  BY DEF ActionLocation, a, r, R
<1>7. QED
  BY <1>5, <1>6

\* The path to the drifted operation, where the profile has it.
LEMMA OperationLocated ==
  ASSUME NEW Trees, NEW Texts, DocumentTrees(Trees, Texts), NumeralsIn(Texts), "operations" \in Texts,
         NEW docs, NEW drift, docs[drift.system] \in Trees, OperationIndex(docs[drift.system], drift.operation) # 0
  PROVE  OperationPath(docs, drift) \in Seq(Texts)
<1> DEFINE list == Elements(Child(docs[drift.system], "operations"))
           i == OperationIndex(docs[drift.system], drift.operation)
<1>1. list \in Seq(Trees)
  BY Found
<1>2. i \in 1..Len(list)
  BY <1>1, FirstInIs DEF OperationIndex
<1>3. i \in Nat \ {0}
  BY <1>1, <1>2
<1>4. Numerals[i] \in Texts
  BY <1>3 DEF NumeralsIn
<1>5. OperationPath(docs, drift) = <<"operations", Numerals[i]>>
  BY DEF OperationPath
<1> HIDE DEF i
<1>6. QED
  BY <1>4, <1>5

\* The key of the mapping, where one has the target.
LEMMA MappingFound ==
  ASSUME NEW Trees, NEW Texts, DocumentTrees(Trees, Texts), NumeralsIn(Texts), "mappings" \in Texts,
         NEW doc \in Trees, NEW location \in Seq(Texts), NEW target, MappingIndex(doc, location, target) # 0
  PROVE  Numerals[MappingIndex(doc, location, target)] \in Texts
<1> DEFINE t == ReadPointer(doc, Append(location, "mappings"))
           i == MappingIndex(doc, location, target)
<1>1. t \in Trees \cup {Missing}
  <2>1. Append(location, "mappings") \in Seq(Texts)
    OBVIOUS
  <2>2. QED
    BY <2>1, PathRules
<1>2. Elements(t) \in Seq(Trees)
  BY <1>1, Found
<1>3. i \in 1..Len(Elements(t))
  BY <1>2, FirstInIs DEF MappingIndex
<1>4. i \in Nat \ {0}
  BY <1>2, <1>3
<1>5. QED
  BY <1>4 DEF NumeralsIn
-----------------------------------------------------------------------------
\* The texts the repairs themselves use.
Words == {"contract", "routes", "actions", "mappings", "source", "target", "permissions", "operations",
          "request_schema", "required_permissions", "path", End}

\* A drift on documents: the contract and the profiles, each system's under a name of its own.
DriftOver(Trees, Texts, drift) ==
  /\ \E Names \in SUBSET Texts : "contract" \in Names /\ drift.documents \in [Names -> Trees]
  /\ IsObject(Child(drift.documents["contract"], "permissions"))
  /\ drift.system \in Texts \ {"contract"}
  /\ {drift.value, Leaf(drift.source), Leaf(drift.target)} \subseteq Trees
  /\ drift.schema \in Trees \cup {Missing}
  /\ drift.patches \in Seq(PatchesOver(Trees, Texts))

\* A patch that adds only at a list's end.
Plain(p) == p.operation = "add" => Last(p.path) = End

\* Patches that add at list ends only are not blind.
LEMMA PlainIsSighted ==
  ASSUME NEW docs, NEW ps, \A i \in DOMAIN ps : Plain(ps[i])
  PROVE  Sighted(docs, ps)
BY DEF Sighted, Plain, Blind

\* A patch made of typed parts.
LEMMA PatchIs ==
  ASSUME NEW Trees, NEW Texts, NEW a \in Texts, NEW o \in Operations, NEW path \in Seq(Texts), NEW v \in Trees
  PROVE  /\ Patch(a, o, path, v) \in PatchesOver(Trees, Texts)
         /\ Patch(a, o, path, v).artifact = a /\ Patch(a, o, path, v).operation = o /\ Patch(a, o, path, v).path = path
         /\ o = "replace" => Plain(Patch(a, o, path, v))
BY DEF Patch, PatchesOver, Plain

\* The patches propose() makes are patches, and none of its own adds blindly: a grant is only
\* added where there is none, and the patch before it is on another artifact.
LEMMA GeneratedIsSighted ==
  ASSUME NEW Trees, NEW Texts, DocumentTrees(Trees, Texts), NumeralsIn(Texts), Words \subseteq Texts,
         NEW drift, DriftOver(Trees, Texts, drift),
         Generated(drift.documents, drift) # NoPatches,
         ApplyAll(drift.documents, Generated(drift.documents, drift)) # Raised
  PROVE  /\ Generated(drift.documents, drift) \in Seq(PatchesOver(Trees, Texts))
         /\ drift.type # "explicit_patches" => Sighted(drift.documents, Generated(drift.documents, drift))
<1> DEFINE docs == drift.documents
           P == PatchesOver(Trees, Texts)
           ps == Generated(docs, drift)
           document == docs["contract"]
           location == ActionLocation(document, drift.action)
           operation == OperationPath(docs, drift)
<1>1. PICK Names \in SUBSET Texts : "contract" \in Names /\ docs \in [Names -> Trees]
  BY DEF DriftOver
<1>2. /\ IsObject(Child(document, "permissions")) /\ drift.system \in Texts /\ drift.system # "contract"
      /\ drift.value \in Trees /\ Leaf(drift.source) \in Trees /\ Leaf(drift.target) \in Trees
      /\ drift.schema \in Trees \cup {Missing} /\ drift.patches \in Seq(P)
  BY DEF DriftOver
<1>3. Attributed(docs, drift)
  BY DEF Generated
<1>4. document \in Trees /\ drift.system \in Names /\ docs[drift.system] \in Trees
  BY <1>1, <1>3 DEF Attributed
<1>5. location \in Seq(Texts)
  BY <1>3, <1>4, Located DEF Attributed, Words
<1>6. operation \in Seq(Texts)
  BY <1>3, <1>4, OperationLocated DEF Attributed, Words
<1>7. {"replace", "add"} \subseteq Operations
  BY DEF Operations
<1>8. /\ Append(operation, "request_schema") \in Seq(Texts)
      /\ Append(operation, "required_permissions") \in Seq(Texts)
      /\ Append(operation, "path") \in Seq(Texts)
  <2> HIDE DEF operation
  <2>1. QED
    BY <1>6 DEF Words
<1> HIDE DEF docs, P, ps, document, location, operation
<1>9. SchemaPatch(docs, drift) \in Seq(P) /\ \A i \in DOMAIN SchemaPatch(docs, drift) : Plain(SchemaPatch(docs, drift)[i])
  <2>1. CASE drift.schema = Missing
    BY <2>1 DEF SchemaPatch
  <2>2. CASE drift.schema # Missing
    <3> DEFINE p == Patch(drift.system, "replace", Append(operation, "request_schema"), drift.schema)
    <3>1. p \in P /\ Plain(p)
      BY <1>2, <1>7, <1>8, <2>2, PatchIs DEF P
    <3> HIDE DEF p
    <3>2. SchemaPatch(docs, drift) = <<p>>
      BY <2>2 DEF SchemaPatch, p, operation
    <3>3. QED
      BY <3>1, <3>2
  <2>3. QED
    BY <2>1, <2>2
<1>10. ASSUME NEW p \in P, Plain(p), ps = <<p>> \o SchemaPatch(docs, drift)
       PROVE  ps \in Seq(P) /\ Sighted(docs, ps)
  <2> DEFINE s == SchemaPatch(docs, drift)
  <2>1. s \in Seq(P) /\ \A i \in DOMAIN s : Plain(s[i])
    BY <1>9
  <2> HIDE DEF s
  <2>2. <<p>> \o s \in Seq(P) /\ \A i \in DOMAIN (<<p>> \o s) : Plain((<<p>> \o s)[i])
    BY <1>10, <2>1
  <2>3. QED
    BY <1>10, <2>2, PlainIsSighted DEF s
<1>11. CASE drift.type = "field_renamed"
  <2> DEFINE index == MappingIndex(document, location, drift.source)
             path == location \o <<"mappings", Numerals[index], "target">>
             p == Patch("contract", "replace", path, Leaf(drift.target))
  <2>1. ps = FieldRenamed(docs, drift)
    BY <1>3, <1>11 DEF Generated, ps
  <2>2. index # 0 /\ ps = <<p>> \o SchemaPatch(docs, drift)
    <3>1. ps # NoPatches
      BY DEF ps, docs
    <3>2. QED
      BY <2>1, <3>1 DEF FieldRenamed, document, location
  <2>3. Numerals[index] \in Texts
    BY <1>4, <1>5, <2>2, MappingFound DEF Words
  <2> HIDE DEF index
  <2>4. path \in Seq(Texts)
    BY <1>5, <2>3 DEF Words
  <2> HIDE DEF path
  <2>5. p \in P /\ Plain(p)
    BY <1>2, <1>7, <2>4, PatchIs DEF P, Words
  <2>6. QED
    BY <1>10, <2>2, <2>5 DEF docs, ps, P
<1>12. CASE drift.type = "required_field_added"
  <2> DEFINE path == location \o <<"mappings", End>>
             p == Patch("contract", "add", path, NewRule(drift))
  <2>1. ps = <<p>> \o SchemaPatch(docs, drift)
    BY <1>3, <1>12 DEF Generated, ps, RequiredFieldAdded, document, location
  <2>2. path \in Seq(Texts) /\ Last(path) = End
    BY <1>5 DEF Words, Last
  <2> HIDE DEF path
  <2>3. NewRule(drift) \in Trees
    <3> DEFINE f == [source |-> Leaf(drift.source), target |-> Leaf(drift.target)]
    <3>1. DOMAIN f \subseteq Texts /\ f \in [DOMAIN f -> Trees]
      BY <1>2 DEF Words
    <3> HIDE DEF f
    <3>2. QED
      BY <3>1, Grown DEF NewRule, f
  <2>4. p \in P /\ p.path = path
    BY <1>7, <2>2, <2>3, PatchIs DEF P, Words
  <2>5. Plain(p)
    BY <2>2, <2>4 DEF Plain
  <2>6. QED
    BY <1>10, <2>1, <2>4, <2>5 DEF docs, ps, P
<1>13. CASE drift.type = "endpoint_changed"
  <2> DEFINE p == Patch(drift.system, "replace", Append(operation, "path"), drift.value)
  <2>1. ps = <<p>>
    BY <1>3, <1>13 DEF Generated, ps, EndpointChanged, operation
  <2>2. p \in P /\ Plain(p)
    BY <1>2, <1>7, <1>8, PatchIs DEF P
  <2> HIDE DEF p
  <2>3. ps \in Seq(P) /\ \A i \in DOMAIN ps : Plain(ps[i])
    BY <2>1, <2>2
  <2>4. QED
    BY <2>3, PlainIsSighted DEF docs, ps, P
<1>14. CASE drift.type = "permission_changed"
  <2> DEFINE at == Append(operation, "required_permissions")
             p == Patch(drift.system, "replace", at, drift.value)
             path == <<"permissions", drift.system>>
             o == GrantOperation(docs, drift)
             q == Patch("contract", o, path, drift.value)
             e == <<>>
             permissions == Child(document, "permissions")
  <2>1. ps = <<p, q>>
    BY <1>3, <1>14 DEF Generated, ps, PermissionChanged, operation
  <2>2. p \in P /\ Plain(p) /\ p.artifact = drift.system /\ p.path \in Seq(Texts)
    <3>1. at \in Seq(Texts) /\ "replace" \in Operations
      BY <1>7, <1>8
    <3> HIDE DEF at
    <3>2. p \in P /\ Plain(p) /\ p.artifact = drift.system /\ p.path = at
      BY <1>2, <3>1, PatchIs DEF P
    <3>3. QED
      BY <3>1, <3>2
  <2>3. path \in Seq(Texts) /\ Front(path) = Append(e, "permissions") /\ Last(path) = drift.system /\ e \in Seq(Texts)
    <3>1. e \in Seq(Texts) /\ drift.system \in Texts /\ "permissions" \in Texts /\ path = Append(Append(e, "permissions"), drift.system)
      BY <1>2 DEF Words
    <3> HIDE DEF path, e
    <3> DEFINE front == Append(e, "permissions")
    <3>2. front \in Seq(Texts) /\ path = Append(front, drift.system)
      BY <3>1
    <3> HIDE DEF front
    <3>3. path \in Seq(Texts) /\ Front(path) = front /\ Last(path) = drift.system
      <4>1. \A k \in Texts : Front(Append(front, k)) = front /\ Last(Append(front, k)) = k /\ Append(front, k) \in Seq(Texts)
        BY <3>2, FrontAndLast
      <4>2. QED
        BY <3>1, <3>2, <4>1
    <3>4. QED
      BY <3>1, <3>3 DEF front
  <2>4. o \in Operations /\ (o = "add" => Child(permissions, drift.system) = Missing)
    BY <1>7 DEF GrantOperation, document
  <2> HIDE DEF path, o
  <2>5. q \in P /\ q.artifact = "contract" /\ q.operation = o /\ q.path = path
    BY <1>2, <2>3, <2>4, PatchIs DEF P, Words
  <2> HIDE DEF p, q, e, at
  <2>6. ps \in Seq(P) /\ DOMAIN ps = {1, 2} /\ ps[1] = p /\ ps[2] = q
    BY <2>1, <2>2, <2>5
  <2>7. SubSeq(ps, 1, 2 - 1) = Append(e, p) /\ <<p, q>> = Append(Append(e, p), q) /\ Append(e, p) \in Seq(P) /\ e \in Seq(P)
    <3>1. e \in Seq(P) /\ <<p, q>> = Append(Append(e, p), q)
      BY <2>2, <2>5 DEF e
    <3>2. Append(e, p) \in Seq(P) /\ Len(ps) = 2
      BY <2>1, <2>2, <3>1
    <3>3. Front(Append(Append(e, p), q)) = Append(e, p)
      <4> DEFINE front == Append(e, p)
      <4>1. front \in Seq(P)
        BY <3>2
      <4> HIDE DEF front
      <4>2. Front(Append(front, q)) = front
        BY <2>5, <4>1, FrontAndLast
      <4>3. QED
        BY <4>2 DEF front
    <3>4. Front(ps) = SubSeq(ps, 1, 2 - 1)
      BY <3>2 DEF Front
    <3>5. QED
      BY <2>1, <3>1, <3>2, <3>3, <3>4
  <2> DEFINE d == ApplyPatch(docs, p)
  <2>8. ApplyAll(docs, Append(e, p)) = d /\ ApplyAll(docs, ps) = ApplyPatch(d, q)
    <3>1. ApplyAll(docs, e) = docs
      BY <2>2, <2>7, ApplyRules DEF e
    <3>2. ApplyAll(docs, Append(e, p)) = ApplyPatch(ApplyAll(docs, e), p)
      BY <2>2, <2>7, ApplyRules
    <3>3. ApplyAll(docs, Append(Append(e, p), q)) = ApplyPatch(ApplyAll(docs, Append(e, p)), q)
      BY <2>5, <2>7, ApplyRules
    <3>4. QED
      BY <2>1, <2>7, <3>1, <3>2, <3>3
  <2>9. d # Raised
    <3>1. ApplyPatch(d, q) # Raised
      BY <2>8 DEF ps, docs
    <3> HIDE DEF d
    <3>2. QED
      BY <3>1 DEF ApplyPatch
  <2>10. d["contract"] = document
    <3>1. PICK new : d = [docs EXCEPT ![p.artifact] = new]
      BY <2>9 DEF ApplyPatch
    <3> HIDE DEF d
    <3>2. QED
      BY <1>1, <1>2, <2>2, <3>1 DEF document
  <2>11. ReadPointer(document, Front(path)) = permissions
    <3>1. "permissions" \in Texts
      BY DEF Words
    <3>2. ReadPointer(document, e) = document /\ ReadPointer(document, Append(e, "permissions")) = Child(ReadPointer(document, e), "permissions")
      BY <2>3, <3>1, ReadRules DEF e
    <3>3. QED
      BY <2>3, <3>2
  <2>12. ~IsList(permissions)
    <3>1. permissions \in Trees \cup {Missing}
      BY <1>4, Found
    <3>2. Missing \notin {permissions}
      BY <1>2 DEF IsObject, Missing
    <3>3. QED
      BY <1>2, <3>1, <3>2, ShapeOf
  <2> HIDE DEF d, permissions
  <2>13. ~Blind(d, q)
    BY <2>3, <2>4, <2>5, <2>10, <2>11, <2>12 DEF Blind
  <2>14. ~Blind(ApplyAll(docs, SubSeq(ps, 1, 1 - 1)), p)
    BY <2>2 DEF Blind, Plain
  <2>15. ~Blind(ApplyAll(docs, SubSeq(ps, 1, 2 - 1)), q)
    BY <2>7, <2>8, <2>13
  <2>16. Sighted(docs, ps)
    BY <2>6, <2>14, <2>15 DEF Sighted
  <2>17. QED
    BY <2>6, <2>16 DEF docs, ps, P
<1>15. CASE drift.type = "explicit_patches"
  BY <1>2, <1>3, <1>15 DEF Generated, ps, docs, P
<1>16. drift.type \in {"field_renamed", "required_field_added", "permission_changed", "endpoint_changed", "explicit_patches"}
  <2>1. ps # NoPatches
    BY DEF ps, docs
  <2>2. QED
    BY <1>3, <2>1 DEF Generated, ps
<1>17. QED
  BY <1>11, <1>12, <1>13, <1>14, <1>15, <1>16

\* Over any documents, the rollback of a repair that is proposed and applied takes it back.
LEMMA NothingUnrestored ==
  ASSUME NEW Trees, NEW Texts, DocumentTrees(Trees, Texts), NumeralsIn(Texts), Words \subseteq Texts,
         JsonNull \in Trees, \A drift \in Drifts : DriftOver(Trees, Texts, drift)
  PROVE  Unrestored = {}
<1> SUFFICES ASSUME NEW drift \in Drifts,
                    Proposed(drift.documents, drift) # Raised,
                    ApplyAll(drift.documents, Proposed(drift.documents, drift).patches) # Raised,
                    drift.type = "explicit_patches" => Sighted(drift.documents, Proposed(drift.documents, drift).patches)
             PROVE  Restored(drift.documents, Proposed(drift.documents, drift))
  BY DEF Unrestored
<1> DEFINE docs == drift.documents
           ps == Generated(docs, drift)
           candidate == Proposed(docs, drift)
<1>1. /\ ps # NoPatches /\ RollbackPatches(docs, ps) # NoPatches
      /\ candidate.patches = ps /\ candidate.rollback = RollbackPatches(docs, ps)
  BY DEF Proposed
<1>2. UndoneAll(docs, ps).docs # Raised /\ RollbackPatches(docs, ps) = UndoneAll(docs, ps).rollback
  BY <1>1, RollbackIs
<1>3. DriftOver(Trees, Texts, drift)
  OBVIOUS
<1>4. ps \in Seq(PatchesOver(Trees, Texts)) /\ Sighted(docs, ps)
  BY <1>1, <1>3, GeneratedIsSighted
<1>5. PICK Names \in SUBSET Texts : "contract" \in Names /\ docs \in [Names -> Trees]
  BY <1>3 DEF DriftOver
<1> HIDE DEF docs, ps
<1>6. ApplyAll(docs, ps) # Raised
  BY <1>1 DEF docs
<1>7. ApplyAll(ApplyAll(docs, ps), UndoneAll(docs, ps).rollback) = docs
  BY <1>2, <1>4, <1>5, <1>6, AllUnapplied
<1>8. QED
  BY <1>1, <1>2, <1>7 DEF Restored, docs

\* For any documents and drifts: a deployed repair's rollback restores the documents, whatever
\* its patches do to the places of one another (_rollback_patches() writes each inverse
\* against the documents as the patches before it leave them, and puts it in front).
THEOREM RollbackAlwaysRestores ==
  ASSUME NEW Trees, NEW Texts, DocumentTrees(Trees, Texts), NumeralsIn(Texts), Words \subseteq Texts,
         JsonNull \in Trees, \A drift \in Drifts : DriftOver(Trees, Texts, drift)
  PROVE  Spec => []RollbackRestores
<1>1. Unrestored = {}
  BY NothingUnrestored
<1>2. RollbackRestores
  BY <1>1 DEF RollbackRestores
<1> QED
  BY <1>2, PTL
=============================================================================
