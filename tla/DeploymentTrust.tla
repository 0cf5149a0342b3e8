---------------------------- MODULE DeploymentTrust ----------------------------
(***************************************************************************)
(* Which factory the indexer may believe: one row of protocol_deployments, *)
(* the requests of administrators that create, edit, enable and verify it  *)
(* (crates/app/src/server.rs), DeploymentRegistry::verify                  *)
(* (crates/pons_v2/src/lib.rs) and DeploymentRepository                    *)
(* (crates/storage/src/repositories/deployments.rs).                       *)
(*                                                                         *)
(* No request holds a lock from its read of the row to its write.  What a  *)
(* verification checks is one record, the settings; a code hash stands for *)
(* the code it is the hash of.  CurveIngestion has the streams that ask    *)
(* whether the deployment is active and abstracts this module to a flag.   *)
(***************************************************************************)
EXTENDS Naturals

CONSTANTS
  Requests,  \* requests in flight at one time
  Codes,     \* bytecodes a contract may have
  NoCode,    \* no contract at the address; no expected_code_hash in the row
  Blocks,    \* blocks a launch may be in
  MaxEdits,  \* bound: edits of the settings
  MaxIncidents  \* bound: failed RPC calls and statements, crashes

ASSUME TrustAssumption ==
  /\ NoCode \notin Codes
  /\ {MaxEdits, MaxIncidents} \subseteq Nat

VARIABLES
  code,     \* eth_getCode of the deployment's address
  row,      \* the row of protocol_deployments
  request,  \* the local state of every request
  edits, incidents,
  raced     \* history: the settings were last edited while a verification was under way

trustVars == <<code, row, request, edits, incidents, raced>>

\* expected_code_hash; a valid interface_fingerprint and valid expected_event_topics;
\* those of Blocks from start_block to end_block.
Settings == [hash : Codes \cup {NoCode}, sound : BOOLEAN, range : SUBSET Blocks]
\* Where the code has NULL or no row.
Nothing == [hash |-> NoCode, sound |-> FALSE, range |-> Blocks, absent |-> TRUE]

\* evidence is of the settings a verification read; approval is of the settings that
\* were verified by the request that set approved_by.
Absent == [present |-> FALSE, enabled |-> FALSE, settings |-> Nothing, health |-> "UNVERIFIED",
           evidence |-> Nothing, basis |-> "UNTRUSTED", approval |-> Nothing]
Idle == [step |-> "idle", seen |-> Nothing, verdict |-> "none", pinned |-> FALSE,
         enable |-> "keep", new |-> Nothing]

Incident == incidents < MaxIncidents /\ incidents' = incidents + 1
Verifying(q) == request[q].step \in {"checking", "saving", "approving"}
Finish(q) == request' = [request EXCEPT ![q] = Idle]

-----------------------------------------------------------------------------
(***************************************************************************)
(* What the streams ask.                                                   *)
(***************************************************************************)
Trusted(r) == r.basis = "PINNED_CODE_HASH" \/ (r.basis = "OPERATOR_APPROVED" /\ r.approval # Nothing)

\* deployment_active_at of the launch handler; active_verified has the same condition.
ActiveAt(r, b) ==
  /\ r.present /\ r.enabled
  /\ r.health = "VERIFIED"
  /\ Trusted(r)
  /\ b \in r.settings.range

-----------------------------------------------------------------------------
(***************************************************************************)
(* Creating and editing.                                                   *)
(***************************************************************************)
\* A contract is deployed at the address, replaced or destroyed.
Deploy ==
  /\ Incident
  /\ code' \in (Codes \cup {NoCode}) \ {code}
  /\ UNCHANGED <<row, request, edits, raced>>

\* A new row is disabled and unverified; so is the one a migration seeds.
Create(s) ==
  /\ ~row.present
  /\ row' = [Absent EXCEPT !.present = TRUE, !.settings = s]
  /\ UNCHANGED <<code, request, edits, incidents, raced>>

\* The request reads the row before it is changed; enabling is refused when the row is
\* not verified or when the same request edits the settings.
PatchRead(q, enable, new) ==
  /\ request[q].step = "idle" /\ row.present
  /\ enable # "keep" \/ new # Nothing
  /\ enable = "yes" => row.health = "VERIFIED" /\ new = Nothing
  /\ request' = [request EXCEPT ![q] = [Idle EXCEPT !.step = "patching", !.enable = enable,
                                                    !.new = new]]
  /\ UNCHANGED <<code, row, edits, incidents, raced>>

EditedKeepingApproval(r, new) ==
  IF new = Nothing THEN r
  ELSE [r EXCEPT !.settings = new, !.health = "UNVERIFIED", !.evidence = Nothing,
                 !.basis = "UNTRUSTED"]

\* One UPDATE: an edit of the settings takes back what was verified of them.
Edited(r, new) ==
  IF new = Nothing THEN r
  ELSE [r EXCEPT !.settings = new, !.health = "UNVERIFIED", !.evidence = Nothing,
                 !.basis = "UNTRUSTED", !.approval = Nothing]

PatchWrite(q) ==
  LET p == request[q]
      r == Edited(row, p.new)
  IN /\ p.step = "patching"
     /\ p.new # Nothing => edits < MaxEdits
     /\ row' = [r EXCEPT !.enabled = IF p.enable = "keep" THEN @ ELSE p.enable = "yes"]
     /\ edits' = IF p.new = Nothing THEN edits ELSE edits + 1
     /\ raced' = IF p.new = Nothing THEN raced ELSE \E o \in Requests : Verifying(o)
     /\ Finish(q)
     /\ UNCHANGED <<code, incidents>>

-----------------------------------------------------------------------------
(***************************************************************************)
(* Verifying.                                                              *)
(***************************************************************************)
VerifyRead(q) ==
  /\ request[q].step = "idle" /\ row.present
  /\ request' = [request EXCEPT ![q] = [Idle EXCEPT !.step = "checking", !.seen = row.settings]]
  /\ UNCHANGED <<code, row, edits, incidents, raced>>

CodeMatches(s) == s.hash = code
\* There is code, it is the expected one where one is expected, and the interface is valid.
Sound(s) ==
  /\ code # NoCode
  /\ s.hash = NoCode \/ CodeMatches(s)
  /\ s.sound

\* The chain's identity and the code are read; a call that fails degrades the deployment
\* like a check that fails, and so does another chain.
VerifyChecks(q) ==
  /\ request[q].step = "checking"
  /\ \/ /\ request' = [request EXCEPT
              ![q].step = "saving",
              ![q].pinned = CodeMatches(request[q].seen),
              ![q].verdict = IF Sound(request[q].seen) THEN "VERIFIED" ELSE "DEGRADED"]
        /\ UNCHANGED incidents
     \/ /\ Incident
        /\ request' = [request EXCEPT ![q].step = "saving", ![q].verdict = "DEGRADED"]
  /\ UNCHANGED <<code, row, edits, raced>>

Basis(v) == CASE v.verdict = "VERIFIED" /\ v.pinned  -> "PINNED_CODE_HASH"
              [] v.verdict = "VERIFIED" /\ ~v.pinned -> "OPERATOR_APPROVED"
              [] OTHER                               -> "UNTRUSTED"

\* save_verification is not conditional on the row it was computed from.
VerifySave(q) ==
  LET v == request[q]
  IN /\ v.step = "saving"
     /\ row' = [row EXCEPT !.health = v.verdict, !.evidence = v.seen, !.basis = Basis(v),
                           !.approval = IF v.verdict = "VERIFIED" THEN @ ELSE Nothing]
     /\ IF v.verdict = "VERIFIED"
        THEN request' = [request EXCEPT ![q].step = "approving"]
        ELSE Finish(q)
     /\ UNCHANGED <<code, edits, incidents, raced>>

ApproveAnyway(q) ==
  /\ request[q].step = "approving"
  /\ row' = [row EXCEPT !.approval = request[q].seen]
  /\ Finish(q)
  /\ UNCHANGED <<code, edits, incidents, raced>>
\* set_approver: a statement of its own, which leaves a row alone that is not verified.
Approve(q) ==
  /\ request[q].step = "approving"
  /\ row' = IF row.health = "VERIFIED" THEN [row EXCEPT !.approval = request[q].seen] ELSE row
  /\ Finish(q)
  /\ UNCHANGED <<code, edits, incidents, raced>>

\* A statement fails, or the connection with it, and the request ends there.
RequestFails(q) ==
  /\ request[q].step \in {"patching", "saving", "approving"}
  /\ Incident
  /\ Finish(q)
  /\ UNCHANGED <<code, row, edits, raced>>

RequestsDie ==
  /\ \E q \in Requests : request[q] # Idle
  /\ Incident
  /\ request' = [q \in Requests |-> Idle]
  /\ UNCHANGED <<code, row, edits, raced>>

-----------------------------------------------------------------------------
TrustInit ==
  /\ code \in Codes \cup {NoCode}
  /\ row = Absent
  /\ request = [q \in Requests |-> Idle]
  /\ edits = 0 /\ incidents = 0 /\ raced = FALSE

TrustNext ==
  \/ Deploy
  \/ \E s \in Settings : Create(s)
  \/ \E q \in Requests :
       \/ \E enable \in {"keep", "yes", "no"}, new \in Settings \cup {Nothing} :
            PatchRead(q, enable, new)
       \/ PatchWrite(q)
       \/ VerifyRead(q) \/ VerifyChecks(q) \/ VerifySave(q) \/ Approve(q)
       \/ RequestFails(q)
  \/ RequestsDie

TrustSpec == TrustInit /\ [][TrustNext]_trustVars

-----------------------------------------------------------------------------
(***************************************************************************)
(* Properties.                                                             *)
(***************************************************************************)
Recorded == Settings \cup {Nothing}
TrustTypeOK ==
  /\ code \in Codes \cup {NoCode}
  /\ row.present \in BOOLEAN /\ row.enabled \in BOOLEAN
  /\ {row.settings, row.evidence, row.approval} \subseteq Recorded
  /\ row.health \in {"UNVERIFIED", "VERIFIED", "DEGRADED"}
  /\ row.basis \in {"UNTRUSTED", "OPERATOR_APPROVED", "PINNED_CODE_HASH"}
  /\ \A q \in Requests :
       /\ request[q].step \in {"idle", "patching", "checking", "saving", "approving"}
       /\ {request[q].seen, request[q].new} \subseteq Recorded
  /\ edits \in 0..MaxEdits /\ incidents \in 0..MaxIncidents /\ raced \in BOOLEAN

\* Every variable keeps its type, and an approval does not outlive the verification it
\* was given for: when the row is edited or a later verification fails, nobody's approval
\* is left for the next verification to be taken for approved
\* (deployments.rs:144-199, server.rs:1664-1702).
ApprovalNeedsVerification ==
  /\ TrustTypeOK
  /\ row.approval # Nothing => row.health = "VERIFIED"

\* What the indexer believes is what was verified: unless the settings were edited while
\* a verification was under way, an active deployment has evidence of the settings the
\* row has now, a basis that its expected code hash bears out, and, where nothing is
\* pinned, the approval of somebody whose own verification was of these settings.
TrustedAsConfigured ==
  (\E b \in Blocks : ActiveAt(row, b)) /\ ~raced =>
    /\ row.evidence = row.settings
    /\ row.basis = "PINNED_CODE_HASH" => row.settings.hash # NoCode
    /\ row.basis = "OPERATOR_APPROVED" => row.settings.hash = NoCode /\ row.approval = row.settings

=============================================================================
