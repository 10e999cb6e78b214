------------------------------ MODULE Promotion ------------------------------
(***************************************************************************)
(* Which deployments may serve production traffic (models/promotion.py and *)
(* the promote, probe and evaluate commands of models/cli.py).  Operators  *)
(* run commands side by side.  A command loads the whole state file, edits *)
(* one deployment and writes the whole file back; nothing locks it.        *)
(*                                                                         *)
(* Of a deployment's identity only the part that may be left blank is      *)
(* modelled (revision, digest).  A probe is known by the identity it was   *)
(* made for and the capabilities it shows, an evaluation by its identity;  *)
(* a shadow run names deployments only.                                    *)
(***************************************************************************)
EXTENDS Naturals, FiniteSets

CONSTANTS
  Deployments, Operators,
  Identities,     \* what the registry may say a deployment is; may contain Blank
  Blank, NONE,
  Tiers, DeclaredTiers, Workloads,
  Supported,      \* what a probe may find: sets of capabilities
  Required,       \* Required[p]: the capabilities workload policy p asks for
  Licensed,       \* deployments whose licence the policy accepts
  BindIdentity, RequireProbe, RequireEvaluation, RequireShadow,
  Policies,       \* versions of the promotion policy
  MaxCommands, MaxEdits

ASSUME PromotionAssumption ==
  /\ Blank # NONE /\ NONE \notin Identities
  /\ DeclaredTiers \subseteq Tiers /\ Licensed \subseteq Deployments
  /\ {BindIdentity, RequireProbe, RequireEvaluation, RequireShadow} \subseteq BOOLEAN
  /\ MaxCommands \in Nat /\ MaxEdits \in Nat

VARIABLES
  registry,    \* registry[d]: the identity config/models.yaml gives d
  policy,      \* the version of config/promotion.yaml
  spoiled,     \* artifacts deleted or rewritten since they were recorded
  rows,        \* the state file: per deployment a row, or NONE
  command,     \* command[o]: how far the command of operator o has come
  commands, edits   \* how many have been begun, or made

vars == <<registry, policy, spoiled, rows, command, commands, edits>>

TRANSITIONS ==
  [ registered |-> {"probed", "disabled"},
    probed     |-> {"evaluated", "registered", "disabled"},
    evaluated  |-> {"shadow", "probed", "disabled"},
    shadow     |-> {"approved", "evaluated", "disabled"},
    approved   |-> {"disabled", "shadow"},
    disabled   |-> {"registered"} ]

States    == DOMAIN TRANSITIONS
Probes    == [identity : Identities, supports : Supported]
SHADOWED  == "shadow"
Optional(S) == S \union {NONE}
Grants    == [Workloads -> SUBSET Tiers]

\* PromotionStore.record.  An approval is the policy it was given under, and for
\* which workloads; workloads[w] is empty when w has no tiers of its own.
FreshRow ==
  [ state |-> "registered", probe |-> NONE, evaluation |-> NONE, shadow |-> NONE,
    approval |-> NONE, identity |-> NONE,
    approved_tiers |-> {}, approved_workloads |-> [w \in Workloads |-> {}] ]

Row(store, d) == IF store[d] = NONE THEN FreshRow ELSE store[d]

Idle == [pc |-> "idle"]

Init ==
  /\ registry \in [Deployments -> Identities]
  /\ policy \in Policies
  /\ spoiled = {}
  /\ rows = [d \in Deployments |-> NONE]
  /\ command = [o \in Operators |-> Idle]
  /\ commands = 0 /\ edits = 0

-----------------------------------------------------------------------------
\* Identity and evidence

\* identities_match: what either side leaves blank is not compared.
IdentitiesMatch(identity, recorded) ==
  recorded = NONE \/ Blank \in {identity, recorded} \/ identity = recorded

\* An artifact is taken whatever it was made for.
Accepts_Anything(identity, measured) == {identity, measured} \subseteq Identities

\* _validate_artifact_identity: what was measured must be what the registry names.
Accepts(identity, measured) == identity = Blank \/ measured = identity

\* _stored_artifact_valid
Intact(kind, artifact) == artifact # NONE /\ <<kind, artifact>> \notin spoiled

Shows(probe) == IF probe = NONE THEN {} ELSE probe.supports

\* _approval_evidence_valid
EvidenceIsValid(row) ==
  /\ row.approval # NONE /\ row.approval.policy = policy
  /\ Intact("probe", row.probe)
  /\ Required[row.approval.workload_policy] \subseteq Shows(row.probe)
  /\ RequireEvaluation => Intact("evaluation", row.evaluation)
  /\ RequireShadow => Intact("shadow", row.shadow)

\* apply_overlay: what a gateway, or a command, that reads the files now makes
\* of d.  No file declares a lifecycle of its own.
Overlay(d) ==
  LET row   == Row(rows, d)
      match == IF row.identity = NONE THEN row.state = "registered"
               ELSE IdentitiesMatch(registry[d], row.identity)
  IN  [ identity |-> registry[d],
        lifecycle |-> IF match THEN row.state ELSE "registered",
        approved_tiers |-> IF match THEN row.approved_tiers ELSE {},
        match |-> match,
        bound |-> match /\ row.state = "approved" /\ EvidenceIsValid(row) ]

-----------------------------------------------------------------------------
\* promote

\* row, with the artifacts given on the command line.
WithArtifacts(row, args) ==
  [ row EXCEPT !.probe      = IF args.probe # NONE THEN args.probe ELSE @,
               !.evaluation = IF args.evaluation # NONE THEN args.evaluation ELSE @,
               !.shadow     = IF args.shadow # NONE THEN args.shadow ELSE @ ]

ArtifactsFit(spec, args) ==
  /\ args.probe # NONE => Accepts(spec.identity, args.probe.identity)
  /\ args.evaluation # NONE => Accepts(spec.identity, args.evaluation)

HasEvidence(row, target, args) ==
  /\ target \notin {"registered", "disabled"} =>
       /\ RequireProbe => row.probe # NONE
       /\ Required[args.workload_policy] \subseteq Shows(row.probe)
  /\ target \in {"evaluated", "shadow", "approved"} /\ RequireEvaluation => row.evaluation # NONE
  /\ target \in {"shadow", "approved"} /\ RequireShadow => row.shadow # NONE

TiersFit(d, target, args) ==
  target = "approved" =>
    /\ args.tiers # {} /\ args.tiers \subseteq DeclaredTiers
    /\ \A w \in Workloads : args.workloads[w] \subseteq args.tiers
    /\ d \in Licensed

\* validate_transition: nothing blocks.  An override skips only the graph.
MayMove(d, spec, row, target, args) ==
  /\ target # spec.lifecycle
  /\ target \in TRANSITIONS[spec.lifecycle] \/ args.force
  /\ spec.match
  /\ BindIdentity => IdentitiesMatch(spec.identity, row.identity)
  /\ HasEvidence(WithArtifacts(row, args), target, args)
  /\ TiersFit(d, target, args)

\* apply_transition.  What is not given is kept; identity becomes that of today.
Moved(spec, row, target, args) ==
  [ WithArtifacts(row, args) EXCEPT
      !.state = target,
      !.identity = spec.identity,
      !.approved_tiers = IF args.tiers # {} THEN args.tiers ELSE @,
      !.approved_workloads =
        IF \E w \in Workloads : args.workloads[w] # {} THEN args.workloads ELSE @,
      !.approval = IF target = "approved"
                   THEN [policy |-> policy, workload_policy |-> args.workload_policy] ELSE NONE ]

Arguments ==
  [ probe : Optional(Probes), evaluation : Optional(Identities), shadow : Optional({SHADOWED}),
    tiers : SUBSET Tiers, workloads : Grants, workload_policy : DOMAIN Required,
    force : BOOLEAN ]

CONSTANT GivenArguments   \* the arguments the instance considers

Approvals == [policy : Policies, workload_policy : DOMAIN Required]

ASSUME ArgumentsAssumption ==
  GivenArguments \subseteq Arguments /\ NONE \notin Probes /\ NONE \notin Approvals

\* The command reads the deployment through the overlay, and the file once more.
BeginPromote(o, d) ==
  /\ command[o] = Idle /\ commands < MaxCommands
  /\ command' = [command EXCEPT ![o] = [pc |-> "begun", at |-> d, spec |-> Overlay(d)]]
  /\ commands' = commands + 1
  /\ UNCHANGED <<registry, policy, spoiled, rows, edits>>

LoadStore(o) ==
  /\ command[o].pc = "begun"
  /\ command' = [command EXCEPT ![o] = [ pc |-> "promoting", at |-> command[o].at,
                                         spec |-> command[o].spec, store |-> rows ]]
  /\ UNCHANGED <<registry, policy, spoiled, rows, commands, edits>>

Promote(o, target, args) ==
  LET c == command[o] IN
  /\ c.pc = "promoting"
  /\ ArtifactsFit(c.spec, args)
  /\ MayMove(c.at, c.spec, Row(c.store, c.at), target, args)
  /\ rows' = [c.store EXCEPT ![c.at] = Moved(c.spec, Row(c.store, c.at), target, args)]
  /\ command' = [command EXCEPT ![o] = Idle]
  /\ UNCHANGED <<registry, policy, spoiled, commands, edits>>

\* A command that is blocked, fails, or was a dry run.
Refuse(o) ==
  /\ command[o] # Idle
  /\ command' = [command EXCEPT ![o] = Idle]
  /\ UNCHANGED <<registry, policy, spoiled, rows, commands, edits>>

-----------------------------------------------------------------------------
\* probe and evaluate attach the artifact they wrote, and the identity of today,
\* whatever the state of the deployment.

BeginAttach(o) ==
  /\ command[o] = Idle /\ commands < MaxCommands
  /\ command' = [command EXCEPT ![o] = [pc |-> "attaching", store |-> rows]]
  /\ commands' = commands + 1
  /\ UNCHANGED <<registry, policy, spoiled, rows, edits>>

AttachProbe(o, d, probe) ==
  LET store == command[o].store IN
  /\ command[o].pc = "attaching"
  /\ Accepts(registry[d], probe.identity)
  /\ rows' = [store EXCEPT ![d] = [ Row(store, d) EXCEPT !.probe = probe,
                                                         !.identity = registry[d] ]]
  /\ command' = [command EXCEPT ![o] = Idle]
  /\ UNCHANGED <<registry, policy, spoiled, commands, edits>>

\* One evaluation run, of several deployments; `results` of those that went well.
AttachEvaluation(o, results) ==
  LET store == command[o].store IN
  /\ command[o].pc = "attaching"
  /\ \A d \in DOMAIN results : Accepts(registry[d], results[d])
  /\ rows' = [d \in Deployments |->
                IF d \in DOMAIN results
                THEN [Row(store, d) EXCEPT !.evaluation = results[d], !.identity = registry[d]]
                ELSE store[d]]
  /\ command' = [command EXCEPT ![o] = Idle]
  /\ UNCHANGED <<registry, policy, spoiled, commands, edits>>

-----------------------------------------------------------------------------
\* The files change: another revision, another policy, an artifact lost.

Edit == edits < MaxEdits /\ edits' = edits + 1

Revise(d, identity) ==
  /\ Edit /\ identity # registry[d]
  /\ registry' = [registry EXCEPT ![d] = identity]
  /\ UNCHANGED <<policy, spoiled, rows, command, commands>>

Repolicy(version) ==
  /\ Edit /\ version # policy
  /\ policy' = version
  /\ UNCHANGED <<registry, spoiled, rows, command, commands>>

Spoil(kind, artifact) ==
  /\ Edit /\ Intact(kind, artifact)
  /\ spoiled' = spoiled \union {<<kind, artifact>>}
  /\ UNCHANGED <<registry, policy, rows, command, commands>>

Next ==
  \/ \E o \in Operators, d \in Deployments : BeginPromote(o, d)
  \/ \E o \in Operators : LoadStore(o) \/ Refuse(o) \/ BeginAttach(o)
  \/ \E o \in Operators, target \in States, args \in GivenArguments : Promote(o, target, args)
  \/ \E o \in Operators, d \in Deployments, p \in Probes : AttachProbe(o, d, p)
  \/ \E o \in Operators, D \in SUBSET Deployments :
       \E results \in [D -> Identities] : AttachEvaluation(o, results)
  \/ \E d \in Deployments, i \in Identities : Revise(d, i)
  \/ \E v \in Policies : Repolicy(v)
  \/ \E d \in Deployments, kind \in {"probe", "evaluation", "shadow"} :
       Spoil(kind, Row(rows, d)[kind])

Spec == Init /\ [][Next]_vars

-----------------------------------------------------------------------------
\* Properties

Rows ==
  [ state : States, probe : Optional(Probes), evaluation : Optional(Identities),
    shadow : Optional({SHADOWED}), identity : Optional(Identities),
    approval : Optional(Approvals),
    approved_tiers : SUBSET Tiers, approved_workloads : Grants ]

TypeOK ==
  /\ registry \in [Deployments -> Identities] /\ policy \in Policies
  /\ rows \in [Deployments -> Optional(Rows)]
  /\ \A d \in Deployments : rows[d] # NONE =>
       (rows[d].state = "approved") = (rows[d].approval # NONE)

\* What a gateway that starts now lets win production traffic.
Eligible(d) == Overlay(d).lifecycle = "approved" /\ Overlay(d).match /\ Overlay(d).bound

HasWhatItsStateTakes(row) ==
  /\ row.state \in {"probed", "evaluated", "shadow", "approved"} /\ RequireProbe => row.probe # NONE
  /\ row.state \in {"evaluated", "shadow", "approved"} /\ RequireEvaluation => row.evaluation # NONE
  /\ row.state \in {"shadow", "approved"} /\ RequireShadow => row.shadow # NONE

\* "Measured artifacts earn probed / evaluated / shadow / approved"
\* (promotion.yaml:4): whatever commands run side by side, are overridden, or go
\* back, no row is in a state without the artifacts required for it.
StateHasEvidence ==
  \A d \in Deployments : rows[d] # NONE => HasWhatItsStateTakes(rows[d])

\* A revision that nobody probed or evaluated does not serve: in a registry
\* without blanks, an eligible deployment has some evidence of the revision the
\* registry gives today, although the identity of a row is rewritten by commands
\* that read the registry before it changed.
EligibleWasMeasured ==
  \A d \in Deployments : Eligible(d) =>
    registry[d] \in {rows[d].probe.identity, rows[d].evaluation}

\* An approval reaches only tiers the registry declares, however the tiers given
\* with earlier transitions, which are not looked at, linger in the row.
ApprovedTiersAreDeclared ==
  \A d \in Deployments : Overlay(d).lifecycle = "approved" =>
    /\ Overlay(d).approved_tiers # {}
    /\ Overlay(d).approved_tiers \subseteq DeclaredTiers

\* "Identity mismatch fail-closes" (promotion.py:402): evidence is bound to what
\* it was measured on.  Does not hold: probing another revision records its
\* identity in an approved row, and the approval and the evaluation of the
\* revision before it count again.
EvidenceIsOfWhatServes ==
  \A d \in Deployments : Eligible(d) /\ registry[d] # Blank =>
    /\ rows[d].probe.identity \in {registry[d], Blank}
    /\ RequireEvaluation => rows[d].evaluation \in {registry[d], Blank}
=============================================================================
