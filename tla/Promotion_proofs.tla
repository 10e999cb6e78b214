--------------------------- MODULE Promotion_proofs ---------------------------
(***************************************************************************)
(* Safety of Promotion for every set of deployments, operators, identities *)
(* and artifacts, every policy and any number of overlapping commands.     *)
(*                                                                         *)
(* Commands write back whole stores they loaded earlier, so an invariant   *)
(* of the file is one of every store a command still holds.  A row is      *)
(* sound when it has what its state takes, when an approval has declared   *)
(* tiers, and when its identity is that of some of its evidence.           *)
(***************************************************************************)
EXTENDS Promotion, TLAPS

\* In a registry without blanks, what a row says it is, is what its probe or its
\* evaluation was made for.
IdentityIsMeasured(row) ==
  BindIdentity /\ Blank \notin Identities =>
    /\ row.identity = NONE => row.probe = NONE /\ row.evaluation = NONE
    /\ \/ row.probe = NONE /\ row.evaluation = NONE
       \/ row.probe # NONE /\ row.probe.identity = row.identity
       \/ row.evaluation = row.identity

TiersAreDeclared(row) ==
  row.state = "approved" =>
    row.approved_tiers # {} /\ row.approved_tiers \subseteq DeclaredTiers

SoundRows ==
  {row \in Rows : /\ (row.state = "approved") = (row.approval # NONE)
                  /\ HasWhatItsStateTakes(row)
                  /\ TiersAreDeclared(row)
                  /\ IdentityIsMeasured(row)}

Stores == [Deployments -> Optional(SoundRows)]

Specs ==
  [ identity : Identities, lifecycle : States, approved_tiers : SUBSET Tiers,
    match : BOOLEAN, bound : BOOLEAN ]

Commands ==
  [pc : {"idle"}]
    \union [pc : {"begun"}, at : Deployments, spec : Specs]
    \union [pc : {"promoting"}, at : Deployments, spec : Specs, store : Stores]
    \union [pc : {"attaching"}, store : Stores]

IInv ==
  /\ registry \in [Deployments -> Identities] /\ policy \in Policies
  /\ rows \in Stores
  /\ command \in [Operators -> Commands]

-----------------------------------------------------------------------------
\* Rows

\* A deployment no command has written about has a sound row.
LEMMA RowIsSound ==
  ASSUME NEW store \in Stores, NEW d \in Deployments
  PROVE  Row(store, d) \in SoundRows
<1>1. FreshRow \in SoundRows
  BY DEF FreshRow, SoundRows, Rows, States, TRANSITIONS, Optional, Grants,
         HasWhatItsStateTakes, TiersAreDeclared, IdentityIsMeasured
<1>. QED  BY <1>1 DEF Row, Stores, Optional

\* What the overlay makes of a deployment has the type of a spec.
LEMMA OverlayIsSpec ==
  ASSUME IInv, NEW d \in Deployments
  PROVE  Overlay(d) \in Specs
<1>. DEFINE row == Row(rows, d)
<1>1. row \in SoundRows
  BY RowIsSound DEF IInv
<1>2. row.state \in States /\ row.approved_tiers \in SUBSET Tiers
  BY <1>1 DEF SoundRows, Rows
<1>3. "registered" \in States
  BY DEF States, TRANSITIONS
<1>4. registry[d] \in Identities
  BY DEF IInv
<1>. HIDE DEF row
<1>. QED  BY <1>2, <1>3, <1>4 DEF Overlay, row, Specs, IdentitiesMatch, EvidenceIsValid

\* apply_transition makes a sound row of a sound row, whatever it was told.
LEMMA MovedIsSound ==
  ASSUME IInv,
         NEW d \in Deployments, NEW spec \in Specs, NEW row \in SoundRows,
         NEW target \in States, NEW args \in Arguments,
         ArtifactsFit(spec, args), MayMove(d, spec, row, target, args)
  PROVE  Moved(spec, row, target, args) \in SoundRows
<1>. DEFINE with == WithArtifacts(row, args)
            moved == Moved(spec, row, target, args)
<1>1. row \in Rows /\ spec.identity \in Identities /\ policy \in Policies
  BY DEF SoundRows, Specs, IInv
<1>2. /\ with \in Rows
      /\ with.identity = row.identity
      /\ with.probe = (IF args.probe # NONE THEN args.probe ELSE row.probe)
      /\ with.evaluation = (IF args.evaluation # NONE THEN args.evaluation ELSE row.evaluation)
  BY <1>1 DEF WithArtifacts, Rows, Arguments
<1>3. /\ args.tiers \in SUBSET Tiers /\ args.workloads \in Grants
      /\ args.workload_policy \in DOMAIN Required
  BY DEF Arguments
<1>4. /\ moved \in Rows
      /\ moved.state = target /\ moved.identity = spec.identity
      /\ moved.probe = with.probe /\ moved.evaluation = with.evaluation
      /\ moved.shadow = with.shadow
      /\ moved.approved_tiers = (IF args.tiers # {} THEN args.tiers ELSE with.approved_tiers)
      /\ moved.approval = (IF target = "approved"
                           THEN [policy |-> policy, workload_policy |-> args.workload_policy]
                           ELSE NONE)
  <2>. DEFINE approval == IF target = "approved"
                          THEN [policy |-> policy, workload_policy |-> args.workload_policy]
                          ELSE NONE
              workloads == IF \E w \in Workloads : args.workloads[w] # {}
                           THEN args.workloads ELSE with.approved_workloads
              tiers == IF args.tiers # {} THEN args.tiers ELSE with.approved_tiers
  <2>1. approval \in Optional(Approvals) /\ NONE \in Optional(Approvals)
    BY <1>1, <1>3 DEF Optional, Approvals
  <2>2. workloads \in Grants /\ tiers \in SUBSET Tiers
    BY <1>2, <1>3 DEF Rows
  <2>3. moved = [with EXCEPT !.state = target, !.identity = spec.identity,
                             !.approved_tiers = tiers, !.approved_workloads = workloads,
                             !.approval = approval]
    BY DEF Moved
  <2>4. spec.identity \in Optional(Identities)
    BY <1>1 DEF Optional
  <2>. HIDE DEF with, moved, approval, workloads, tiers
  <2>5. /\ moved \in Rows
        /\ moved.state = target /\ moved.identity = spec.identity
        /\ moved.probe = with.probe /\ moved.evaluation = with.evaluation
        /\ moved.shadow = with.shadow
        /\ moved.approved_tiers = tiers /\ moved.approval = approval
    BY <1>2, <2>1, <2>2, <2>3, <2>4 DEF Rows
  <2>. QED  BY <2>5 DEF tiers, approval
<1>. HIDE DEF with, moved
<1>5. (moved.state = "approved") = (moved.approval # NONE)
  BY <1>1, <1>3, <1>4, ArgumentsAssumption DEF Approvals
<1>6. HasWhatItsStateTakes(moved)
  BY <1>4 DEF MayMove, HasEvidence, HasWhatItsStateTakes, with
<1>7. TiersAreDeclared(moved)
  BY <1>4 DEF MayMove, TiersFit, TiersAreDeclared
<1>8. IdentityIsMeasured(moved)
  <2>. SUFFICES ASSUME BindIdentity, Blank \notin Identities
                PROVE  /\ moved.identity # NONE
                       /\ \/ moved.probe = NONE /\ moved.evaluation = NONE
                          \/ moved.probe # NONE /\ moved.probe.identity = moved.identity
                          \/ moved.evaluation = moved.identity
    BY DEF IdentityIsMeasured
  <2>1. moved.identity # NONE
    BY <1>1, <1>4, PromotionAssumption
  <2>2. CASE args.probe # NONE
    BY <1>1, <1>2, <1>4, <2>1, <2>2 DEF ArtifactsFit, Accepts
  <2>3. CASE args.evaluation # NONE
    BY <1>1, <1>2, <1>4, <2>1, <2>3 DEF ArtifactsFit, Accepts
  <2>4. CASE args.probe = NONE /\ args.evaluation = NONE
    <3>1. IdentityIsMeasured(row) /\ IdentitiesMatch(spec.identity, row.identity)
      BY DEF SoundRows, MayMove
    <3>2. row.identity = NONE \/ spec.identity = row.identity
      BY <1>1, <3>1, PromotionAssumption DEF IdentitiesMatch, Rows, Optional
    <3>. QED  BY <1>2, <1>4, <2>1, <2>4, <3>1, <3>2 DEF IdentityIsMeasured
  <2>. QED  BY <2>1, <2>2, <2>3, <2>4
<1>. QED  BY <1>4, <1>5, <1>6, <1>7, <1>8 DEF SoundRows, moved

\* So does attaching a probe to what the registry names today,
LEMMA ProbedIsSound ==
  ASSUME NEW row \in SoundRows, NEW identity \in Identities, NEW probe \in Probes,
         Accepts(identity, probe.identity)
  PROVE  [row EXCEPT !.probe = probe, !.identity = identity] \in SoundRows
<1>. DEFINE probed == [row EXCEPT !.probe = probe, !.identity = identity]
<1>1. /\ probed \in Rows
      /\ probed.probe = probe /\ probed.identity = identity
      /\ \A f \in {"state", "evaluation", "shadow", "approval", "approved_tiers"} :
           probed[f] = row[f]
  BY DEF SoundRows, Rows, Optional
<1>2. probe # NONE /\ identity # NONE
  BY ArgumentsAssumption, PromotionAssumption
<1>3. Blank \notin Identities => probe.identity = identity
  BY DEF Accepts
<1>. HIDE DEF probed
<1>4. HasWhatItsStateTakes(probed) /\ TiersAreDeclared(probed) /\ IdentityIsMeasured(probed)
  BY <1>1, <1>2, <1>3 DEF SoundRows, HasWhatItsStateTakes, TiersAreDeclared, IdentityIsMeasured
<1>. QED  BY <1>1, <1>4 DEF SoundRows, probed

\* and attaching an evaluation.
LEMMA EvaluatedIsSound ==
  ASSUME NEW row \in SoundRows, NEW identity \in Identities, NEW evaluation \in Identities,
         Accepts(identity, evaluation)
  PROVE  [row EXCEPT !.evaluation = evaluation, !.identity = identity] \in SoundRows
<1>. DEFINE evaluated == [row EXCEPT !.evaluation = evaluation, !.identity = identity]
<1>1. /\ evaluated \in Rows
      /\ evaluated.evaluation = evaluation /\ evaluated.identity = identity
      /\ \A f \in {"state", "probe", "shadow", "approval", "approved_tiers"} :
           evaluated[f] = row[f]
  BY DEF SoundRows, Rows, Optional
<1>2. evaluation # NONE /\ identity # NONE
  BY PromotionAssumption
<1>3. Blank \notin Identities => evaluation = identity
  BY DEF Accepts
<1>. HIDE DEF evaluated
<1>4. /\ HasWhatItsStateTakes(evaluated) /\ TiersAreDeclared(evaluated)
      /\ IdentityIsMeasured(evaluated)
  BY <1>1, <1>2, <1>3 DEF SoundRows, HasWhatItsStateTakes, TiersAreDeclared, IdentityIsMeasured
<1>. QED  BY <1>1, <1>4 DEF SoundRows, evaluated

-----------------------------------------------------------------------------
\* The invariant

\* With no state file and no command running, the invariant holds.
LEMMA InitIInv == Init => IInv
<1>. SUFFICES ASSUME Init PROVE IInv
  OBVIOUS
<1>1. rows \in Stores
  BY DEF Init, Stores, Optional
<1>2. command \in [Operators -> Commands]
  BY DEF Init, Idle, Commands
<1>. QED  BY <1>1, <1>2 DEF Init, IInv

\* Whatever a command loads is sound, and so is whatever it writes.
LEMMA NextIInv == IInv /\ [Next]_vars => IInv'
<1>. SUFFICES ASSUME IInv, [Next]_vars PROVE IInv'
  OBVIOUS
<1>0. Idle \in Commands
  BY DEF Idle, Commands
<1>1. ASSUME NEW o \in Operators, NEW d \in Deployments, BeginPromote(o, d)
      PROVE  IInv'
  <2>1. [pc |-> "begun", at |-> d, spec |-> Overlay(d)] \in Commands
    BY OverlayIsSpec DEF Commands
  <2>. QED  BY <1>1, <2>1 DEF BeginPromote, IInv
<1>2. ASSUME NEW o \in Operators, LoadStore(o)
      PROVE  IInv'
  <2>1. command[o] \in Commands /\ command[o].pc = "begun"
    BY <1>2 DEF LoadStore, IInv
  <2>2. command[o].at \in Deployments /\ command[o].spec \in Specs
    BY <2>1 DEF Commands
  <2>3. [ pc |-> "promoting", at |-> command[o].at,
          spec |-> command[o].spec, store |-> rows ] \in Commands
    BY <2>2 DEF Commands, IInv
  <2>. QED  BY <1>2, <2>3 DEF LoadStore, IInv
<1>3. ASSUME NEW o \in Operators, NEW target \in States, NEW args \in GivenArguments,
             Promote(o, target, args)
      PROVE  IInv'
  <2>. DEFINE c == command[o]
              d == c.at
  <2>1. c \in Commands /\ c.pc = "promoting" /\ args \in Arguments
    BY <1>3, ArgumentsAssumption DEF Promote, IInv
  <2>2. d \in Deployments /\ c.spec \in Specs /\ c.store \in Stores
    BY <2>1 DEF Commands
  <2>. DEFINE row == Row(c.store, d)
  <2>3. row \in SoundRows
    BY <2>2, RowIsSound
  <2>4. ArtifactsFit(c.spec, args) /\ MayMove(d, c.spec, row, target, args)
    BY <1>3 DEF Promote
  <2>. HIDE DEF c
  <2>5. Moved(c.spec, row, target, args) \in SoundRows
    <3>. HIDE DEF row, d
    <3>. QED  BY <2>1, <2>2, <2>3, <2>4, MovedIsSound
  <2>6. rows' = [c.store EXCEPT ![d] = Moved(c.spec, row, target, args)]
    BY <1>3 DEF Promote, c
  <2>7. rows' \in Stores
    BY <2>2, <2>5, <2>6 DEF Stores, Optional
  <2>. QED  BY <1>0, <1>3, <2>7 DEF Promote, IInv
<1>4. ASSUME NEW o \in Operators, Refuse(o)
      PROVE  IInv'
  BY <1>0, <1>4 DEF Refuse, IInv
<1>5. ASSUME NEW o \in Operators, BeginAttach(o)
      PROVE  IInv'
  <2>1. [pc |-> "attaching", store |-> rows] \in Commands
    BY DEF Commands, IInv
  <2>. QED  BY <1>5, <2>1 DEF BeginAttach, IInv
<1>6. ASSUME NEW o \in Operators, NEW d \in Deployments, NEW p \in Probes,
             AttachProbe(o, d, p)
      PROVE  IInv'
  <2>. DEFINE store == command[o].store
              row   == Row(store, d)
              probed == [row EXCEPT !.probe = p, !.identity = registry[d]]
  <2>1. command[o] \in Commands /\ command[o].pc = "attaching"
    BY <1>6 DEF AttachProbe, IInv
  <2>2. store \in Stores
    BY <2>1 DEF Commands
  <2>3. row \in SoundRows /\ registry[d] \in Identities
    BY <2>2, RowIsSound DEF IInv
  <2>4. probed \in SoundRows
    BY <1>6, <2>3, ProbedIsSound DEF AttachProbe
  <2>5. rows' = [store EXCEPT ![d] = probed]
    BY <1>6 DEF AttachProbe
  <2>6. rows' \in Stores
    BY <2>2, <2>4, <2>5 DEF Stores, Optional
  <2>. QED  BY <1>0, <1>6, <2>6 DEF AttachProbe, IInv
<1>7. ASSUME NEW o \in Operators, NEW D \in SUBSET Deployments,
             NEW results \in [D -> Identities], AttachEvaluation(o, results)
      PROVE  IInv'
  <2>. DEFINE store == command[o].store
              evaluated(d) == [Row(store, d) EXCEPT !.evaluation = results[d],
                                                    !.identity = registry[d]]
  <2>1. command[o] \in Commands /\ command[o].pc = "attaching"
    BY <1>7 DEF AttachEvaluation, IInv
  <2>2. store \in Stores
    BY <2>1 DEF Commands
  <2>3. ASSUME NEW d \in D
        PROVE  evaluated(d) \in SoundRows
    <3>1. d \in Deployments /\ results[d] \in Identities /\ Accepts(registry[d], results[d])
      BY <1>7 DEF AttachEvaluation
    <3>2. Row(store, d) \in SoundRows /\ registry[d] \in Identities
      BY <2>2, <3>1, RowIsSound DEF IInv
    <3>. QED  BY <3>1, <3>2, EvaluatedIsSound
  <2>4. rows' = [d \in Deployments |-> IF d \in D THEN evaluated(d) ELSE store[d]]
    BY <1>7 DEF AttachEvaluation
  <2>. HIDE DEF store, evaluated
  <2>5. rows' \in Stores
    BY <2>2, <2>3, <2>4 DEF Stores, Optional
  <2>. QED  BY <1>0, <1>7, <2>5 DEF AttachEvaluation, IInv
<1>8. ASSUME NEW d \in Deployments, NEW i \in Identities, Revise(d, i)
      PROVE  IInv'
  BY <1>8 DEF Revise, IInv
<1>9. ASSUME NEW v \in Policies, Repolicy(v)
      PROVE  IInv'
  BY <1>9 DEF Repolicy, IInv
<1>10. ASSUME NEW kind, NEW artifact, Spoil(kind, artifact)
       PROVE  IInv'
  BY <1>10 DEF Spoil, IInv
<1>11. CASE UNCHANGED vars
  BY <1>11 DEF vars, IInv
<1>. QED
  BY <1>1, <1>2, <1>3, <1>4, <1>5, <1>6, <1>7, <1>8, <1>9, <1>10, <1>11 DEF Next

\* The inductive invariant holds in every reachable state.
LEMMA Inductive == Spec => []IInv
<1>. QED  BY InitIInv, NextIInv, PTL DEF Spec

-----------------------------------------------------------------------------
\* The results

\* The state file, and the files it is judged by, keep their types; a row
\* carries an approval exactly while its state is approved.
THEOREM TypeCorrect == Spec => []TypeOK
<1>1. IInv => TypeOK
  BY DEF IInv, TypeOK, Stores, SoundRows, Optional
<1>. QED  BY <1>1, Inductive, PTL

\* However commands overlap, are overridden or go back, no row is in a state
\* without the artifacts the policy requires for it.
THEOREM EvidenceIsKept == Spec => []StateHasEvidence
<1>1. IInv => StateHasEvidence
  BY DEF IInv, StateHasEvidence, Stores, SoundRows, Optional
<1>. QED  BY <1>1, Inductive, PTL

\* What the overlay calls approved has tiers, and only declared ones.
THEOREM TiersAreKept == Spec => []ApprovedTiersAreDeclared
<1>1. ASSUME IInv, NEW d \in Deployments, Overlay(d).lifecycle = "approved"
      PROVE  Overlay(d).approved_tiers # {} /\ Overlay(d).approved_tiers \subseteq DeclaredTiers
  <2>. DEFINE row == Row(rows, d)
  <2>1. row \in SoundRows
    BY <1>1, RowIsSound DEF IInv
  <2>. HIDE DEF row
  <2>2. row.state = "approved" /\ Overlay(d).approved_tiers = row.approved_tiers
    BY <1>1 DEF Overlay, row
  <2>. QED  BY <2>1, <2>2 DEF SoundRows, TiersAreDeclared
<1>2. IInv => ApprovedTiersAreDeclared
  BY <1>1 DEF ApprovedTiersAreDeclared
<1>. QED  BY <1>2, Inductive, PTL

\* Where identities are bound and none is left blank, whatever commands overlap
\* and whatever changes under them, an eligible deployment has evidence of the
\* revision it is today.
THEOREM EligibleIsMeasured ==
  ASSUME BindIdentity, Blank \notin Identities
  PROVE  Spec => []EligibleWasMeasured
<1>1. ASSUME IInv, NEW d \in Deployments, Eligible(d)
      PROVE  registry[d] \in {rows[d].probe.identity, rows[d].evaluation}
  <2>. DEFINE row == Row(rows, d)
  <2>1. row \in SoundRows
    BY <1>1, RowIsSound DEF IInv
  <2>2. Overlay(d).match /\ Overlay(d).bound
    BY <1>1 DEF Eligible
  <2>3. row.state = "approved" /\ EvidenceIsValid(row)
    BY <2>2 DEF Overlay
  <2>4. rows[d] # NONE
    BY <2>3 DEF Row, FreshRow
  <2>5. row.probe # NONE
    BY <2>3 DEF EvidenceIsValid, Intact
  <2>6. row.identity # NONE /\ row.identity \in Identities
    BY <2>1, <2>5 DEF SoundRows, Rows, Optional, IdentityIsMeasured
  <2>7. registry[d] \in Identities
    BY <1>1 DEF IInv
  <2>8. registry[d] = row.identity
    BY <2>2, <2>6, <2>7 DEF Overlay, IdentitiesMatch
  <2>9. row = rows[d]
    BY <2>4 DEF Row
  <2>. HIDE DEF row
  <2>. QED  BY <2>1, <2>5, <2>8, <2>9 DEF SoundRows, IdentityIsMeasured
<1>2. IInv => EligibleWasMeasured
  BY <1>1 DEF EligibleWasMeasured
<1>. QED  BY <1>2, Inductive, PTL
=============================================================================
