------------------------ MODULE ConfigurationProofs ------------------------
(***************************************************************************)
(* Proofs about Configuration, for any number of editors, rules, types,    *)
(* units and requests.                                                     *)
(*                                                                         *)
(* ConfigurationTypes: the tables have their types.  ConfTypeOK says       *)
(* nothing of what a session holds when it commits, so TypeInv adds the    *)
(* locals of the editors, those of the freezer, and the logs.              *)
(*                                                                         *)
(* AuditsExplain: the assignments are the ones the audits record.  It      *)
(* follows by induction over the log: LastChange of a longer log is the    *)
(* new entry for the rules it names and unchanged for the others.          *)
(*                                                                         *)
(* FrozenCovers: what a task has frozen covers the revision it names.      *)
(* CoverInv carries along the freezing which prefix of the log the         *)
(* revision was read from, and that the rows were read from a longer one.  *)
(***************************************************************************)
EXTENDS Configuration, TLAPS, WellFoundedInduction

TypeChanges == UNION {[S -> SUBSET Types] : S \in SUBSET Rules}
Revisions   == UNION {[S -> Nat] : S \in SUBSET Rules}
Scopes == [rev: Nat, rules: SUBSET Rules, units: SUBSET Units, metrics: SUBSET AllPairs,
          focusRev: Nat, focus: SUBSET AllPairs]

\* What a session holds in its locals, by the kind of its request.
AssignSession(s) ==
  /\ s.q \in Menu /\ s.q.kind = "assign"
  /\ \/ s.pc \in {"entry", "state"} /\ s.expected \in [DOMAIN s.q.types -> Nat]
     \/ s.pc = "commit" /\ s.cur \in [DOMAIN s.q.types -> Nat] /\ s.held \in Nat
FocusSession(s) ==
  /\ s.q \in Menu /\ s.q.kind = "focus"
  /\ \/ s.pc \in {"entry", "revision"} /\ s.expected \in Nat
     \/ s.pc = "rows" /\ s.cur \in Nat
     \/ s.pc = "commit" /\ s.cur \in Nat /\ s.insert \subseteq AllPairs
UnitSession(s) ==
  /\ s.q \in Menu /\ s.q.kind = "unit"
  /\ s.pc = "entry" \/ (s.pc = "commit" /\ s.cur \in Nat)
BindingSession(s) ==
  /\ s.q \in Menu /\ s.q.kind = "binding"
  /\ s.pc = "entry" \/ (s.pc = "commit" /\ s.cur \in Nat)
Session(s) == s = Idle \/ AssignSession(s) \/ FocusSession(s) \/ UnitSession(s) \/ BindingSession(s)

EditorTyped == DOMAIN editor = Editors /\ \A e \in Editors : Session(editor[e])

FreezerTyped ==
  freezer \in [pc: {"idle", "rules", "units", "metrics", "focus", "publish"},
               todo: SUBSET Units, scope: Scopes]

LogsTyped ==
  /\ assignLog \in Seq([types: TypeChanges, revs: Revisions, global: Nat \ {0}])
  /\ focusLog \in Seq([set: SUBSET AllPairs, rev: Nat \ {0}])

\* The tables, the locals of the threads, and the logs.
TypeInv == ConfTypeOK /\ EditorTyped /\ FreezerTyped /\ LogsTyped
-----------------------------------------------------------------------------
(* Types                                                                   *)

\* What a request of the menu carries.
LEMMA MenuRequest ==
  ASSUME NEW q \in Menu
  PROVE  /\ q.kind \in {"assign", "focus", "unit", "binding"}
         /\ q.kind = "assign" => q.types \in TypeChanges
         /\ q.kind = "focus" => q.add \subseteq AllPairs /\ q.remove \subseteq AllPairs
         /\ q.kind = "unit" => q.unit \in Units /\ q.to \in BOOLEAN
         /\ q.kind = "binding" => q.binding \in Bindings /\ q.to \in {"confirmed", "ignored"}
  BY ConfigurationAssumption DEF Edits, TypeChanges

\* A change of types names rules of the registry and gives each a set.
LEMMA ChangeOfRules ==
  ASSUME NEW t \in TypeChanges
  PROVE  DOMAIN t \subseteq Rules /\ \A r \in DOMAIN t : t[r] \subseteq Types
  BY DEF TypeChanges

\* The revision a client read is one of the tables' values.
LEMMA ExpectedTyped ==
  ASSUME ConfTypeOK, NEW q \in Menu
  PROVE  /\ q.kind = "assign" => Expected(q) \in [DOMAIN q.types -> Nat]
         /\ q.kind = "focus" => Expected(q) \in Nat
<1>1. CASE q.kind = "assign"
  <2>1. DOMAIN q.types \subseteq Rules
    BY <1>1, MenuRequest, ChangeOfRules
  <2>2. Expected(q) = [r \in DOMAIN q.types |-> ruleRev[r]]
    BY <1>1 DEF Expected
  <2> QED
    BY <1>1, <2>1, <2>2 DEF ConfTypeOK
<1>2. CASE q.kind = "focus"
  BY <1>2 DEF Expected, ConfTypeOK
<1> QED
  BY <1>1, <1>2

\* A thread that goes on with a proper session leaves the others as they are.
LEMMA GoesTyped ==
  ASSUME EditorTyped, NEW e \in Editors, NEW s, Session(s), Goes(e, s)
  PROVE  EditorTyped'
  BY DEF EditorTyped, Goes

\* A thread that answers is idle.
LEMMA AnswersTyped ==
  ASSUME EditorTyped, NEW e \in Editors, Answers(e)
  PROVE  EditorTyped'
  BY GoesTyped DEF Answers, Session
\* A step that only moves a thread keeps everything else typed.
LEMMA QuietTyped ==
  ASSUME TypeInv, Quiet
  PROVE  ConfTypeOK' /\ FreezerTyped' /\ LogsTyped'
  BY DEF TypeInv, Quiet, assignVars, focusVars, unitVars, bindVars, ConfTypeOK, FreezerTyped, LogsTyped

\* The requests for rule assignments keep the types.
LEMMA AssignTyped ==
  ASSUME TypeInv, NEW e \in Editors,
         CompareRuleRevisions(e) \/ LoadGlobalState(e) \/ CommitAssignments(e)
  PROVE  TypeInv'
<1> DEFINE s == editor[e]
<1>s. Session(s)
  BY DEF TypeInv, EditorTyped
<1>1. CASE CompareRuleRevisions(e)
  <2>1. AssignSession(s) /\ s.expected \in [DOMAIN s.q.types -> Nat]
    BY <1>1, <1>s DEF CompareRuleRevisions, At, Session, Idle, AssignSession,
                      FocusSession, UnitSession, BindingSession
  <2>2. Session([pc |-> "state", q |-> s.q, expected |-> s.expected])
    BY <2>1 DEF Session, AssignSession
  <2>3. EditorTyped'
    BY <1>1, <2>2, GoesTyped, AnswersTyped DEF CompareRuleRevisions, TypeInv
  <2> QED
    BY <1>1, <2>3, QuietTyped DEF CompareRuleRevisions, TypeInv
<1>2. CASE LoadGlobalState(e)
  <2>1. AssignSession(s) /\ s.expected \in [DOMAIN s.q.types -> Nat]
    BY <1>2, <1>s DEF LoadGlobalState, At, Session, Idle, AssignSession,
                      FocusSession, UnitSession, BindingSession
  <2>2. Session([pc |-> "commit", q |-> s.q, cur |-> s.expected, held |-> globalRev])
    BY <2>1 DEF Session, AssignSession, TypeInv, ConfTypeOK
  <2>3. EditorTyped'
    BY <1>2, <2>2, GoesTyped DEF LoadGlobalState, TypeInv
  <2> QED
    BY <1>2, <2>3, QuietTyped DEF LoadGlobalState, TypeInv
<1>3. CASE CommitAssignments(e)
  <2>1. /\ s.q \in Menu /\ s.q.kind = "assign"
        /\ s.cur \in [DOMAIN s.q.types -> Nat] /\ s.held \in Nat
    BY <1>3, <1>s DEF CommitAssignments, At, Session, Idle, AssignSession,
                      FocusSession, UnitSession, BindingSession
  <2>2. /\ s.q.types \in TypeChanges /\ DOMAIN s.q.types \subseteq Rules
        /\ \A r \in DOMAIN s.q.types : s.q.types[r] \subseteq Types
    BY <2>1, MenuRequest, ChangeOfRules
  <2>3. assigned' \in [Rules -> SUBSET Types]
    BY <1>3, <2>2 DEF CommitAssignments, WriteAssignments, TypeInv, ConfTypeOK
  <2>4. ruleRev' \in [Rules -> Nat]
    BY <1>3, <2>1, <2>2 DEF CommitAssignments, UpsertRuleState, NextRevision, TypeInv, ConfTypeOK
  <2>5. globalRev' \in Nat /\ NextGlobal(e) \in Nat \ {0}
    BY <1>3, <2>1 DEF CommitAssignments, NextGlobal
  <2>6. Audit(e) \in [types: TypeChanges, revs: Revisions, global: Nat \ {0}]
    <3>1. Audit(e).revs \in [DOMAIN s.q.types -> Nat]
      BY <2>1 DEF Audit, NextRevision
    <3>2. Audit(e).revs \in Revisions
      BY <3>1, <2>2 DEF Revisions
    <3> QED
      BY <3>2, <2>2, <2>5 DEF Audit
  <2>7. LogsTyped'
    BY <1>3, <2>6 DEF CommitAssignments, LogsTyped, TypeInv, focusVars
  <2>8. ConfTypeOK'
    BY <1>3, <2>3, <2>4, <2>5
       DEF CommitAssignments, TypeInv, ConfTypeOK, focusVars, unitVars, bindVars
  <2> QED
    BY <1>3, <2>7, <2>8, AnswersTyped DEF CommitAssignments, TypeInv, FreezerTyped
<1> QED
  BY <1>1, <1>2, <1>3

\* The patches of the team focus keep the types.
LEMMA FocusTyped ==
  ASSUME TypeInv, NEW e \in Editors,
         ReadFocusContext(e) \/ CompareFocusRevision(e) \/ ReadFocusRows(e) \/ CommitFocus(e)
  PROVE  TypeInv'
<1> DEFINE s == editor[e]
<1>s. Session(s)
  BY DEF TypeInv, EditorTyped
<1>f. (At(e, "entry", "focus") \/ At(e, "revision", "focus") \/ At(e, "rows", "focus") \/ At(e, "commit", "focus"))
        => FocusSession(s)
  BY <1>s DEF At, Session, Idle, AssignSession, UnitSession, BindingSession
<1>1. CASE ReadFocusContext(e)
  <2>1. FocusSession(s) /\ s.pc = "entry"
    BY <1>1, <1>f DEF ReadFocusContext, At
  <2>2. Session([pc |-> "revision", q |-> s.q, expected |-> s.expected,
                 open |-> {p \in frozenScope.metrics : unitOn[p[1]]}])
    BY <2>1 DEF Session, FocusSession
  <2>3. EditorTyped'
    BY <1>1, <2>2, GoesTyped, AnswersTyped DEF ReadFocusContext, TypeInv
  <2> QED
    BY <1>1, <2>3, QuietTyped DEF ReadFocusContext, TypeInv
<1>2. CASE CompareFocusRevision(e)
  <2>1. FocusSession(s) /\ s.pc = "revision"
    BY <1>2, <1>f DEF CompareFocusRevision, At
  <2>2. Session([pc |-> "rows", q |-> s.q, cur |-> focusRev])
    BY <2>1 DEF Session, FocusSession, TypeInv, ConfTypeOK
  <2>3. EditorTyped'
    BY <1>2, <2>2, GoesTyped, AnswersTyped DEF CompareFocusRevision, TypeInv
  <2> QED
    BY <1>2, <2>3, QuietTyped DEF CompareFocusRevision, TypeInv
<1>3. CASE ReadFocusRows(e)
  <2>1. FocusSession(s) /\ s.pc = "rows"
    BY <1>3, <1>f DEF ReadFocusRows, At
  <2>2. s.q.add \ focusSet \subseteq AllPairs
    BY <2>1, MenuRequest DEF FocusSession
  <2>3. Session([pc |-> "commit", q |-> s.q, cur |-> s.cur,
                 insert |-> s.q.add \ focusSet, delete |-> s.q.remove \cap focusSet])
    BY <2>1, <2>2 DEF Session, FocusSession
  <2>4. EditorTyped'
    BY <1>3, <2>3, GoesTyped DEF ReadFocusRows, TypeInv
  <2> QED
    BY <1>3, <2>4, QuietTyped DEF ReadFocusRows, TypeInv
<1>4. CASE CommitFocus(e)
  <2>1. s.cur \in Nat /\ s.insert \subseteq AllPairs
    BY <1>4, <1>f DEF CommitFocus, At, FocusSession
  <2>2. EditorTyped'
    BY <1>4, AnswersTyped DEF CommitFocus, TypeInv
  <2>3. CASE s.insert \cap focusSet # {}
    BY <1>4, <2>2, <2>3, QuietTyped DEF CommitFocus, TypeInv
  <2>4. CASE s.insert \cap focusSet = {}
    <3>1. focusSet' \subseteq AllPairs /\ focusRev' \in Nat \ {0}
      BY <1>4, <2>1, <2>4 DEF CommitFocus, TypeInv, ConfTypeOK
    <3>2. [set |-> focusSet', rev |-> focusRev'] \in [set: SUBSET AllPairs, rev: Nat \ {0}]
      BY <3>1
    <3>3. /\ focusLog' = Append(focusLog, [set |-> focusSet', rev |-> focusRev'])
          /\ assignLog' = assignLog
      BY <1>4, <2>4 DEF CommitFocus, assignVars
    <3>4. LogsTyped'
      BY <3>2, <3>3 DEF LogsTyped, TypeInv
    <3> QED
      BY <1>4, <2>2, <2>4, <3>1, <3>4
         DEF CommitFocus, TypeInv, ConfTypeOK, FreezerTyped, assignVars, unitVars, bindVars
  <2> QED
    BY <2>3, <2>4
<1> QED
  BY <1>1, <1>2, <1>3, <1>4
\* The switch of a unit and the correction of a binding keep the types.
LEMMA UnitBindingTyped ==
  ASSUME TypeInv, NEW e \in Editors,
         LoadUnit(e) \/ CommitUnit(e) \/ LoadBinding(e) \/ CommitBinding(e)
  PROVE  TypeInv'
<1> DEFINE s == editor[e]
<1>s. Session(s)
  BY DEF TypeInv, EditorTyped
<1>u. (At(e, "entry", "unit") \/ At(e, "commit", "unit")) => UnitSession(s)
  BY <1>s DEF At, Session, Idle, AssignSession, FocusSession, BindingSession
<1>b. (At(e, "entry", "binding") \/ At(e, "commit", "binding")) => BindingSession(s)
  BY <1>s DEF At, Session, Idle, AssignSession, FocusSession, UnitSession
<1>1. CASE LoadUnit(e)
  <2>1. s.q \in Menu /\ s.q.kind = "unit" /\ unitRev[s.q.unit] \in Nat
    BY <1>1, <1>u, MenuRequest DEF LoadUnit, UnitSession, At, TypeInv, ConfTypeOK
  <2>2. Session([pc |-> "commit", q |-> s.q, cur |-> unitRev[s.q.unit], was |-> unitOn[s.q.unit]])
    BY <2>1 DEF Session, UnitSession
  <2>3. EditorTyped'
    BY <1>1, <2>2, GoesTyped, AnswersTyped DEF LoadUnit, TypeInv
  <2> QED
    BY <1>1, <2>3, QuietTyped DEF LoadUnit, TypeInv
<1>2. CASE CommitUnit(e)
  <2>1. s.q.unit \in Units /\ s.q.to \in BOOLEAN /\ s.cur \in Nat
    BY <1>2, <1>u, MenuRequest DEF CommitUnit, UnitSession, At
  <2>2. EditorTyped'
    BY <1>2, AnswersTyped DEF CommitUnit, TypeInv
  <2>3. unitOn' \in [Units -> BOOLEAN] /\ unitRev' \in [Units -> Nat]
    <3>1. unitOn' = unitOn \/ unitOn' = [unitOn EXCEPT ![s.q.unit] = s.q.to]
      BY <1>2 DEF CommitUnit
    <3>2. unitRev' = [unitRev EXCEPT ![s.q.unit] = s.cur + 1]
      BY <1>2 DEF CommitUnit
    <3>3. unitOn' \in [Units -> BOOLEAN]
      BY <2>1, <3>1, Zenon DEF TypeInv, ConfTypeOK
    <3>4. unitRev' \in [Units -> Nat]
      BY <2>1, <3>2 DEF TypeInv, ConfTypeOK
    <3> QED
      BY <3>3, <3>4
  <2> QED
    BY <1>2, <2>2, <2>3
       DEF CommitUnit, TypeInv, ConfTypeOK, FreezerTyped, LogsTyped, assignVars, focusVars, bindVars
<1>3. CASE LoadBinding(e)
  <2>1. s.q \in Menu /\ s.q.kind = "binding" /\ bindRev[s.q.binding] \in Nat
    BY <1>3, <1>b, MenuRequest DEF LoadBinding, BindingSession, At, TypeInv, ConfTypeOK
  <2>2. Session([pc |-> "commit", q |-> s.q, cur |-> bindRev[s.q.binding]])
    BY <2>1 DEF Session, BindingSession
  <2>3. EditorTyped'
    BY <1>3, <2>2, GoesTyped, AnswersTyped DEF LoadBinding, TypeInv
  <2> QED
    BY <1>3, <2>3, QuietTyped DEF LoadBinding, TypeInv
<1>4. CASE CommitBinding(e)
  <2>1. s.q.binding \in Bindings /\ s.q.to \in {"confirmed", "ignored"} /\ s.cur \in Nat
    BY <1>4, <1>b, MenuRequest DEF CommitBinding, BindingSession, At
  <2>2. EditorTyped'
    BY <1>4, AnswersTyped DEF CommitBinding, TypeInv
  <2> QED
    BY <1>4, <2>1, <2>2
       DEF CommitBinding, TypeInv, ConfTypeOK, FreezerTyped, LogsTyped, assignVars, focusVars, unitVars
<1> QED
  BY <1>1, <1>2, <1>3, <1>4

\* A request is sent with the revision the client read, or refused.
LEMMA RequestTyped ==
  ASSUME TypeInv, NEW e \in Editors, SendEdit(e) \/ RejectEdit(e)
  PROVE  TypeInv'
<1>1. CASE SendEdit(e)
  <2>1. PICK q \in Menu : Goes(e, [pc |-> "entry", q |-> q, expected |-> Expected(q)])
    BY <1>1 DEF SendEdit
  <2>2. Session([pc |-> "entry", q |-> q, expected |-> Expected(q)])
    <3> DEFINE s == [pc |-> "entry", q |-> q, expected |-> Expected(q)]
    <3>1. s.pc = "entry" /\ s.q = q /\ s.expected = Expected(q)
      OBVIOUS
    <3>2. ConfTypeOK
      BY DEF TypeInv
    <3>3. q.kind \in {"assign", "focus", "unit", "binding"}
      BY MenuRequest
    <3>4. /\ q.kind = "assign" => s.expected \in [DOMAIN q.types -> Nat]
          /\ q.kind = "focus" => s.expected \in Nat
      BY <3>1, <3>2, ExpectedTyped
    <3>5. CASE q.kind = "assign"
      BY <3>1, <3>4, <3>5 DEF AssignSession, Session
    <3>6. CASE q.kind = "focus"
      BY <3>1, <3>4, <3>6 DEF FocusSession, Session
    <3>7. CASE q.kind = "unit"
      BY <3>1, <3>7 DEF UnitSession, Session
    <3>8. CASE q.kind = "binding"
      BY <3>1, <3>8 DEF BindingSession, Session
    <3> QED
      BY <3>3, <3>5, <3>6, <3>7, <3>8
  <2>3. EditorTyped'
    BY <2>1, <2>2, GoesTyped DEF TypeInv
  <2> QED
    BY <1>1, <2>3 DEF SendEdit, TypeInv, ConfTypeOK, FreezerTyped, LogsTyped,
                      assignVars, focusVars, unitVars, bindVars
<1>2. CASE RejectEdit(e)
  BY <1>2, QuietTyped, AnswersTyped DEF RejectEdit, TypeInv
<1> QED
  BY <1>1, <1>2

\* The metrics of a unit are pairs of the configuration.
LEMMA UnitMetrics ==
  ASSUME NEW u \in Units
  PROVE  BaseMetrics(u) \subseteq AllPairs /\ DerivedMetrics(u) \subseteq AllPairs
  BY ConfigurationAssumption DEF BaseMetrics, DerivedMetrics, AllPairs

\* The freezer reads values of the tables' types.
LEMMA FreezeTyped ==
  ASSUME TypeInv, Freeze
  PROVE  TypeInv'
<1> USE DEF TypeInv, ConfTypeOK, FreezerTyped, Scopes
<1>0. ASSUME NEW f, FreezerGoes(f),
             f \in [pc: {"idle", "rules", "units", "metrics", "focus", "publish"},
                    todo: SUBSET Units, scope: Scopes]
      PROVE  TypeInv'
  BY <1>0 DEF FreezerGoes, EditorTyped, LogsTyped, assignVars, focusVars, unitVars, bindVars
<1>1. CASE FreezeRuleRevision
  BY <1>0, <1>1 DEF FreezeRuleRevision
<1>2. CASE FreezeRules
  BY <1>0, <1>2 DEF FreezeRules
<1>3. CASE FreezeUnits
  BY <1>0, <1>3 DEF FreezeUnits
<1>4. CASE \E u \in Units : FreezeUnitMetrics(u)
  BY <1>0, <1>4, UnitMetrics DEF FreezeUnitMetrics
<1>5. CASE FreezeFocusRevision
  BY <1>0, <1>5 DEF FreezeFocusRevision
<1>6. CASE FreezeFocus
  BY <1>0, <1>6 DEF FreezeFocus
<1>7. CASE PublishScope
  BY <1>7 DEF PublishScope, NoFreeze, NoScope, EditorTyped, LogsTyped,
              assignVars, focusVars, unitVars, bindVars
<1> QED
  BY <1>1, <1>2, <1>3, <1>4, <1>5, <1>6, <1>7 DEF Freeze

\* Nothing is configured, nobody edits, nothing is frozen.
LEMMA InitTyped == ConfInit => TypeInv
  BY DEF ConfInit, TypeInv, ConfTypeOK, EditorTyped, Session, FreezerTyped, LogsTyped,
         NoFreeze, NoScope, Scopes

\* Every step keeps the types.
LEMMA NextTyped == TypeInv /\ [ConfNext]_confVars => TypeInv'
<1> SUFFICES ASSUME TypeInv, [ConfNext]_confVars PROVE TypeInv'
  OBVIOUS
<1>1. ASSUME NEW e \in Editors, Edit(e) PROVE TypeInv'
  BY <1>1, AssignTyped, FocusTyped, UnitBindingTyped, RequestTyped DEF Edit
<1>2. CASE UNCHANGED confVars
  BY <1>2 DEF confVars, assignVars, focusVars, unitVars, bindVars,
              TypeInv, ConfTypeOK, EditorTyped, FreezerTyped, LogsTyped
<1> QED
  BY <1>1, <1>2, FreezeTyped DEF ConfNext

\* The strengthened typing holds in every reachable state.
LEMMA Typed == ConfSpec => []TypeInv
  BY InitTyped, NextTyped, PTL DEF ConfSpec

\* Every reachable state of the configuration has the types of its tables.
THEOREM ConfigurationTypes == ConfSpec => []ConfTypeOK
<1>1. TypeInv => ConfTypeOK
  BY DEF TypeInv
<1> QED
  BY <1>1, Typed, PTL
-----------------------------------------------------------------------------
(* The audits explain the assignments                                      *)

\* A nonempty set of numbers up to k has a largest one, and Max is it.
LEMMA MaxUpTo ==
  ASSUME NEW k \in Nat, NEW S \in SUBSET (0..k), S # {}
  PROVE  Max(S) \in S /\ \A y \in S : Max(S) >= y
<1> DEFINE U == {k - x : x \in S}
<1>1. U \subseteq Nat /\ U # {}
  <2>1. \A x \in S : k - x \in Nat
    OBVIOUS
  <2>2. PICK x \in S : TRUE
    OBVIOUS
  <2>3. k - x \in U
    OBVIOUS
  <2> QED
    BY <2>1, <2>3
<1>2. IsWellFoundedOn(OpToRel(<, Nat), Nat)
  BY NatLessThanWellFounded
<1> HIDE DEF U
<1>3. PICK m \in U : \A y \in U : <<y, m>> \notin OpToRel(<, Nat)
  BY <1>1, <1>2, WFMin
<1>4. PICK x \in S : m = k - x
  BY <1>3 DEF U
<1>5. \A y \in S : ~((k - y) < (k - x))
  <2> TAKE y \in S
  <2>1. k - y \in U /\ k - y \in Nat /\ k - x \in Nat
    BY DEF U
  <2>2. <<k - y, k - x>> \notin OpToRel(<, Nat)
    BY <1>3, <1>4, <2>1
  <2> QED
    BY <2>1, <2>2, Zenon DEF OpToRel
<1>6. \A y \in S : x >= y
  BY <1>5
<1> QED
  BY <1>6 DEF Max

\* The transactions up to k that changed a rule, and the start.
Changes(r, k) == {0} \cup {i \in 1..k : r \in DOMAIN assignLog[i].types}

\* LastChange is the last of them.
LEMMA LastChangeIsLast ==
  ASSUME NEW r, NEW k \in Nat
  PROVE  LastChange(r, k) \in Changes(r, k) /\ \A i \in Changes(r, k) : LastChange(r, k) >= i
<1>1. Changes(r, k) \in SUBSET (0..k) /\ Changes(r, k) # {}
  BY DEF Changes
<1>2. LastChange(r, k) = Max(Changes(r, k))
  BY DEF LastChange, Changes
<1> QED
  BY <1>1, <1>2, MaxUpTo

\* What a log of transactions says is not changed by the next one.
LEMMA PastKept ==
  ASSUME LogsTyped, NEW a, assignLog' = Append(assignLog, a), NEW k \in 0..Len(assignLog), NEW r
  PROVE  LastChange(r, k)' = LastChange(r, k) /\ TypesAfter(r, k)' = TypesAfter(r, k)
<1>1. \A i \in 1..k : assignLog'[i] = assignLog[i]
  BY DEF LogsTyped
<1>2. LastChange(r, k)' = LastChange(r, k)
  BY <1>1 DEF LastChange
<1>3. LastChange(r, k) \in 0..k
  BY LastChangeIsLast DEF Changes
<1> QED
  BY <1>1, <1>2, <1>3 DEF TypesAfter

\* The next transaction is the last change of the rules it names, and of no other.
LEMMA LastOfLonger ==
  ASSUME LogsTyped, NEW a, assignLog' = Append(assignLog, a),
         NEW n \in Nat, n = Len(assignLog), NEW r
  PROVE  LastChange(r, n + 1)' = IF r \in DOMAIN a.types THEN n + 1 ELSE LastChange(r, n)
<1>1. (\A i \in 1..n : assignLog'[i] = assignLog[i]) /\ assignLog'[n + 1] = a
  BY DEF LogsTyped
<1>2. Changes(r, n + 1)' = IF r \in DOMAIN a.types THEN Changes(r, n) \cup {n + 1} ELSE Changes(r, n)
  BY <1>1 DEF Changes
<1>3. LastChange(r, n + 1)' = Max(Changes(r, n + 1)') /\ LastChange(r, n) = Max(Changes(r, n))
  BY DEF LastChange, Changes
<1>4. CASE r \in DOMAIN a.types
  <2>0. PICK S : S = Changes(r, n + 1)'
    OBVIOUS
  <2>1. S \in SUBSET (0..(n + 1)) /\ n + 1 \in S
    BY <2>0, <1>1, <1>2, <1>4 DEF Changes
  <2>2. n + 1 \in Nat /\ S # {}
    BY <2>1
  <2>3. Max(S) \in S /\ \A y \in S : Max(S) >= y
    BY <2>1, <2>2, MaxUpTo
  <2>4. Max(S) \in 0..(n + 1) /\ Max(S) >= n + 1
    BY <2>1, <2>3
  <2>5. Max(S) = n + 1
    BY <2>4
  <2> QED
    BY <2>0, <1>3, <1>4, <2>5
<1>5. CASE r \notin DOMAIN a.types
  BY <1>2, <1>3, <1>5
<1> QED
  BY <1>4, <1>5

\* A log that stays says the same.
LEMMA LogKept ==
  ASSUME assignLog' = assignLog, NEW r, NEW k
  PROVE  /\ LastChange(r, k)' = LastChange(r, k)
         /\ TypesAfter(r, k)' = TypesAfter(r, k)
         /\ RevAfter(r, k)' = RevAfter(r, k)
<1>1. LastChange(r, k)' = LastChange(r, k)
  BY DEF LastChange
<1> QED
  BY <1>1 DEF TypesAfter, RevAfter

GlobalAfter(k)   == IF k = 0 THEN 0 ELSE assignLog[k].global
FocusRevAfter(k) == IF k = 0 THEN 0 ELSE focusLog[k].rev

\* The log of the focus explains the focus in the same way.
FocusExplained ==
  focusSet = FocusAfter(Len(focusLog)) /\ focusRev = FocusRevAfter(Len(focusLog))

\* Only the commits change the assignments and the focus.
LEMMA OnlyCommitsChange ==
  ASSUME [ConfNext]_confVars
  PROVE  /\ UNCHANGED assignVars \/ \E e \in Editors : CommitAssignments(e)
         /\ UNCHANGED focusVars \/ \E e \in Editors : CommitFocus(e)
<1>1. ASSUME NEW e \in Editors, Edit(e)
      PROVE  /\ UNCHANGED assignVars \/ CommitAssignments(e)
             /\ UNCHANGED focusVars \/ CommitFocus(e)
  BY <1>1 DEF Edit, Quiet, SendEdit, RejectEdit, CompareRuleRevisions, LoadGlobalState,
              CommitAssignments, ReadFocusContext, CompareFocusRevision, ReadFocusRows,
              CommitFocus, LoadUnit, CommitUnit, LoadBinding, CommitBinding
<1>2. ASSUME Freeze PROVE UNCHANGED assignVars /\ UNCHANGED focusVars
  BY <1>2 DEF Freeze, FreezerGoes, FreezeRuleRevision, FreezeRules, FreezeUnits,
              FreezeUnitMetrics, FreezeFocusRevision, FreezeFocus, PublishScope
<1>3. CASE UNCHANGED confVars
  BY <1>3 DEF confVars
<1> QED
  BY <1>1, <1>2, <1>3 DEF ConfNext

\* A commit of assignments is explained by the audit it writes.
LEMMA CommitExplained ==
  ASSUME TypeInv, AuditExplainsAssignments, NEW e \in Editors, CommitAssignments(e)
  PROVE  AuditExplainsAssignments'
<1> DEFINE a == Audit(e)
<1>0. PICK n \in Nat : n = Len(assignLog)
  BY DEF TypeInv, LogsTyped
<1>1. assignLog' = Append(assignLog, a) /\ LogsTyped
  BY DEF CommitAssignments, TypeInv
<1>2. /\ n \in Nat /\ Len(assignLog') = n + 1 /\ assignLog'[n + 1] = a
      /\ \A i \in 1..n : assignLog'[i] = assignLog[i]
  BY <1>0, <1>1 DEF LogsTyped
<1>3. ASSUME NEW r \in Rules
      PROVE  /\ assigned'[r] = TypesAfter(r, n + 1)'
             /\ ruleRev'[r] = RevAfter(r, n + 1)'
  <2>1. CASE r \in DOMAIN a.types
    <3>1. LastChange(r, n + 1)' = n + 1
      BY <1>0, <1>1, <2>1, LastOfLonger
    <3>2. /\ assigned'[r] = editor[e].q.types[r]
          /\ ruleRev'[r] = NextRevision(e, r)
      BY <2>1 DEF Audit, CommitAssignments, WriteAssignments, UpsertRuleState
    <3>3. TypesAfter(r, n + 1)' = a.types[r] /\ RevAfter(r, n + 1)' = a.revs[r]
      BY <1>2, <3>1 DEF TypesAfter, RevAfter
    <3> QED
      BY <2>1, <3>2, <3>3 DEF Audit
  <2>2. CASE r \notin DOMAIN a.types
    <3>1. LastChange(r, n + 1)' = LastChange(r, n) /\ LastChange(r, n) \in 0..n
      BY <1>0, <1>1, <2>2, LastOfLonger, LastChangeIsLast DEF Changes
    <3>2. assigned'[r] = assigned[r] /\ ruleRev'[r] = ruleRev[r]
      BY <2>2 DEF Audit, CommitAssignments, WriteAssignments, UpsertRuleState
    <3>3. TypesAfter(r, n + 1)' = TypesAfter(r, n) /\ RevAfter(r, n + 1)' = RevAfter(r, n)
      BY <1>2, <3>1 DEF TypesAfter, RevAfter
    <3> QED
      BY <1>0, <3>2, <3>3 DEF AuditExplainsAssignments
  <2> QED
    BY <2>1, <2>2
<1>4. globalRev' = assignLog'[n + 1].global
  BY <1>2 DEF CommitAssignments, Audit
<1>5. assignLog' # <<>>
  BY <1>2
<1> QED
  BY <1>2, <1>3, <1>4, <1>5 DEF AuditExplainsAssignments

\* A commit of the focus is explained by the entry it writes.
LEMMA FocusCommitExplained ==
  ASSUME TypeInv, FocusExplained, NEW e \in Editors, CommitFocus(e)
  PROVE  FocusExplained'
<1>1. CASE editor[e].insert \cap focusSet # {}
  BY <1>1 DEF CommitFocus, Quiet, focusVars, FocusExplained, FocusAfter, FocusRevAfter
<1>2. CASE editor[e].insert \cap focusSet = {}
  <2>1. focusLog' = Append(focusLog, [set |-> focusSet', rev |-> focusRev'])
    BY <1>2 DEF CommitFocus
  <2>2. Len(focusLog') # 0 /\ focusLog'[Len(focusLog')] = [set |-> focusSet', rev |-> focusRev']
    BY <2>1 DEF TypeInv, LogsTyped
  <2> QED
    BY <2>2 DEF FocusExplained, FocusAfter, FocusRevAfter
<1> QED
  BY <1>1, <1>2

\* Each step keeps tables and logs in agreement.
LEMMA NextExplained ==
  TypeInv /\ AuditExplainsAssignments /\ FocusExplained /\ [ConfNext]_confVars
    => AuditExplainsAssignments' /\ FocusExplained'
<1> SUFFICES ASSUME TypeInv, AuditExplainsAssignments, FocusExplained, [ConfNext]_confVars
             PROVE  AuditExplainsAssignments' /\ FocusExplained'
  OBVIOUS
<1>1. ASSUME UNCHANGED assignVars PROVE AuditExplainsAssignments'
  <2>1. assignLog' = assignLog /\ assigned' = assigned /\ ruleRev' = ruleRev /\ globalRev' = globalRev
    BY <1>1 DEF assignVars
  <2> QED
    BY <2>1, LogKept DEF AuditExplainsAssignments
<1>2. ASSUME UNCHANGED focusVars PROVE FocusExplained'
  BY <1>2 DEF focusVars, FocusExplained, FocusAfter, FocusRevAfter
<1>3. AuditExplainsAssignments'
  BY <1>1, OnlyCommitsChange, CommitExplained
<1>4. FocusExplained'
  BY <1>2, OnlyCommitsChange, FocusCommitExplained
<1> QED
  BY <1>3, <1>4

\* Before the first transaction nothing is assigned and nothing in focus.
LEMMA InitExplained == ConfInit => AuditExplainsAssignments /\ FocusExplained
<1> SUFFICES ASSUME ConfInit PROVE AuditExplainsAssignments /\ FocusExplained
  OBVIOUS
<1>1. Len(assignLog) = 0 /\ Len(focusLog) = 0
  BY DEF ConfInit
<1>2. ASSUME NEW r \in Rules PROVE LastChange(r, 0) = 0
  BY LastChangeIsLast DEF Changes
<1> QED
  BY <1>1, <1>2
     DEF ConfInit, AuditExplainsAssignments, TypesAfter, RevAfter, FocusExplained, FocusAfter, FocusRevAfter

\* Both logs explain their tables in every reachable state.
LEMMA Explained == ConfSpec => [](TypeInv /\ AuditExplainsAssignments /\ FocusExplained)
<1>1. ConfInit => TypeInv /\ AuditExplainsAssignments /\ FocusExplained
  BY InitTyped, InitExplained
<1>2. TypeInv /\ AuditExplainsAssignments /\ FocusExplained /\ [ConfNext]_confVars
        => TypeInv' /\ AuditExplainsAssignments' /\ FocusExplained'
  BY NextTyped, NextExplained
<1> QED
  BY <1>1, <1>2, PTL DEF ConfSpec

\* Whatever the editors interleave, the assignments, the revisions of the rules
\* and the global revision are the ones the audits record.
THEOREM AuditsExplain == ConfSpec => []AuditExplainsAssignments
  BY Explained, PTL
-----------------------------------------------------------------------------
(* A frozen scope covers the revision it names                             *)

\* The revision in s is one the catalogue had, or the focus had.
RevisionRead(s) == \E j \in 0..Len(assignLog) : s.rev = GlobalAfter(j)
FocusRead(s)    == \E j \in 0..Len(focusLog) : s.focusRev = FocusRevAfter(j)

\* Its rows are those of a moment k, its revision the one of a moment j before.
RulesCovered(s) ==
  \E k \in 0..Len(assignLog) :
    /\ \E j \in 0..k : s.rev = GlobalAfter(j)
    /\ s.rules = {r \in Rules : FocusType \in TypesAfter(r, k)}
FocusCovered(s) ==
  \E k \in 0..Len(focusLog) :
    /\ \E j \in 0..k : s.focusRev = FocusRevAfter(j)
    /\ s.focus = FocusAfter(k)

\* What the freezer has read so far, and what is frozen.
CoverInv ==
  /\ RulesCovered(frozenScope) /\ FocusCovered(frozenScope)
  /\ freezer.pc = "rules" => RevisionRead(freezer.scope)
  /\ freezer.pc \in {"units", "metrics", "focus", "publish"} => RulesCovered(freezer.scope)
  /\ freezer.pc = "focus" => FocusRead(freezer.scope)
  /\ freezer.pc = "publish" => FocusCovered(freezer.scope)
\* Steps only lengthen the logs, so what was so at a moment stays so.
PastStays ==
  /\ \A k \in 0..Len(assignLog) :
       /\ k \in 0..Len(assignLog') /\ GlobalAfter(k)' = GlobalAfter(k)
       /\ \A r \in Rules : TypesAfter(r, k)' = TypesAfter(r, k)
  /\ \A k \in 0..Len(focusLog) :
       k \in 0..Len(focusLog') /\ FocusRevAfter(k)' = FocusRevAfter(k) /\ FocusAfter(k)' = FocusAfter(k)

\* Every step keeps what the logs say of the past.
LEMMA StepsKeepPast ==
  ASSUME TypeInv, [ConfNext]_confVars
  PROVE  PastStays
<1>0. LogsTyped
  BY DEF TypeInv
<1>1. ASSUME NEW k \in 0..Len(assignLog)
      PROVE  /\ k \in 0..Len(assignLog') /\ GlobalAfter(k)' = GlobalAfter(k)
             /\ \A r \in Rules : TypesAfter(r, k)' = TypesAfter(r, k)
  <2>1. CASE UNCHANGED assignVars
    <3>1. assignLog' = assignLog
      BY <2>1 DEF assignVars
    <3> QED
      BY <1>1, <3>1, LogKept DEF GlobalAfter
  <2>2. ASSUME NEW e \in Editors, CommitAssignments(e)
        PROVE  /\ k \in 0..Len(assignLog') /\ GlobalAfter(k)' = GlobalAfter(k)
               /\ \A r \in Rules : TypesAfter(r, k)' = TypesAfter(r, k)
    <3>1. assignLog' = Append(assignLog, Audit(e))
      BY <2>2 DEF CommitAssignments
    <3>2. Len(assignLog') = Len(assignLog) + 1 /\ \A i \in 1..Len(assignLog) : assignLog'[i] = assignLog[i]
      BY <1>0, <3>1 DEF LogsTyped
    <3>3. \A r \in Rules : TypesAfter(r, k)' = TypesAfter(r, k)
      BY <1>0, <1>1, <3>1, PastKept
    <3>4. k \in 0..Len(assignLog') /\ GlobalAfter(k)' = GlobalAfter(k)
      BY <1>0, <1>1, <3>2 DEF GlobalAfter, LogsTyped
    <3> QED
      BY <3>3, <3>4
  <2> QED
    BY <2>1, <2>2, OnlyCommitsChange
<1>2. focusLog' = focusLog \/ focusLog' = Append(focusLog, [set |-> focusSet', rev |-> focusRev'])
  BY OnlyCommitsChange DEF CommitFocus, Quiet, focusVars
<1>3. ASSUME NEW k \in 0..Len(focusLog)
      PROVE  /\ k \in 0..Len(focusLog')
             /\ FocusRevAfter(k)' = FocusRevAfter(k) /\ FocusAfter(k)' = FocusAfter(k)
  <2>1. /\ Len(focusLog) \in Nat /\ Len(focusLog') \in Nat /\ Len(focusLog) <= Len(focusLog')
        /\ \A i \in 1..Len(focusLog) : focusLog'[i] = focusLog[i]
    <3>1. CASE focusLog' = focusLog
      BY <1>0, <3>1 DEF LogsTyped
    <3>2. CASE focusLog' = Append(focusLog, [set |-> focusSet', rev |-> focusRev'])
      BY <1>0, <3>2 DEF LogsTyped
    <3> QED
      BY <1>2, <3>1, <3>2
  <2> QED
    BY <1>3, <2>1 DEF FocusRevAfter, FocusAfter
<1> QED
  BY <1>1, <1>3 DEF PastStays

\* What covers its revision still does after a step.
LEMMA CoveredStays ==
  ASSUME PastStays, NEW s
  PROVE  /\ RevisionRead(s) => RevisionRead(s)'
         /\ FocusRead(s) => FocusRead(s)'
         /\ RulesCovered(s) => RulesCovered(s)'
         /\ FocusCovered(s) => FocusCovered(s)'
<1>1. ASSUME RevisionRead(s) PROVE RevisionRead(s)'
  BY <1>1 DEF RevisionRead, PastStays
<1>2. ASSUME FocusRead(s) PROVE FocusRead(s)'
  BY <1>2 DEF FocusRead, PastStays
<1>3. ASSUME RulesCovered(s) PROVE RulesCovered(s)'
  <2>1. PICK k \in 0..Len(assignLog) :
          /\ \E j \in 0..k : s.rev = GlobalAfter(j)
          /\ s.rules = {r \in Rules : FocusType \in TypesAfter(r, k)}
    BY <1>3 DEF RulesCovered
  <2>2. k \in 0..Len(assignLog') /\ \E j \in 0..k : s.rev = GlobalAfter(j)'
    BY <2>1 DEF PastStays
  <2>3. s.rules = {r \in Rules : FocusType \in TypesAfter(r, k)'}
    BY <2>1 DEF PastStays
  <2> QED
    BY <2>2, <2>3 DEF RulesCovered
<1>4. ASSUME FocusCovered(s) PROVE FocusCovered(s)'
  <2>1. PICK k \in 0..Len(focusLog) :
          (\E j \in 0..k : s.focusRev = FocusRevAfter(j)) /\ s.focus = FocusAfter(k)
    BY <1>4 DEF FocusCovered
  <2>2. /\ k \in 0..Len(focusLog') /\ s.focus = FocusAfter(k)'
        /\ \E j \in 0..k : s.focusRev = FocusRevAfter(j)'
    BY <2>1 DEF PastStays
  <2> QED
    BY <2>2 DEF FocusCovered
<1> QED
  BY <1>1, <1>2, <1>3, <1>4

\* Reading a revision: it is the one of the log's present end.
LEMMA ReadNow ==
  ASSUME TypeInv, AuditExplainsAssignments, FocusExplained, NEW s
  PROVE  /\ s.rev = globalRev => RevisionRead(s)
         /\ s.focusRev = focusRev => FocusRead(s)
         /\ RevisionRead(s) /\ s.rules = {r \in Rules : FocusType \in assigned[r]} => RulesCovered(s)
         /\ FocusRead(s) /\ s.focus = focusSet => FocusCovered(s)
<1>1. Len(assignLog) \in Nat /\ Len(focusLog) \in Nat /\ (assignLog = <<>> <=> Len(assignLog) = 0)
  BY DEF TypeInv, LogsTyped
<1>2. globalRev = GlobalAfter(Len(assignLog))
  BY <1>1 DEF AuditExplainsAssignments, GlobalAfter
<1>3. ASSUME RevisionRead(s), s.rules = {r \in Rules : FocusType \in assigned[r]} PROVE RulesCovered(s)
  <2>1. s.rules = {r \in Rules : FocusType \in TypesAfter(r, Len(assignLog))}
    BY <1>3 DEF AuditExplainsAssignments
  <2> QED
    BY <1>1, <1>3, <2>1 DEF RulesCovered, RevisionRead
<1>4. ASSUME FocusRead(s), s.focus = focusSet PROVE FocusCovered(s)
  BY <1>1, <1>4 DEF FocusCovered, FocusRead, FocusExplained
<1>5. s.rev = globalRev => RevisionRead(s)
  BY <1>1, <1>2 DEF RevisionRead
<1>6. s.focusRev = focusRev => FocusRead(s)
  BY <1>1 DEF FocusRead, FocusExplained
<1> QED
  BY <1>3, <1>4, <1>5, <1>6
\* The freezer takes its rows and its revisions in this order.
LEMMA FreezeCovers ==
  ASSUME TypeInv, AuditExplainsAssignments, FocusExplained, CoverInv, Freeze
  PROVE  CoverInv'
<1>1. PastStays
  BY StepsKeepPast DEF ConfNext
<1>2. PICK s : s = freezer.scope
  OBVIOUS
<1>3. PICK z : z = frozenScope
  OBVIOUS
<1>4. /\ freezer \in [pc: {"idle", "rules", "units", "metrics", "focus", "publish"},
                      todo: SUBSET Units, scope: Scopes]
      /\ s \in Scopes
  BY <1>2 DEF TypeInv, FreezerTyped
<1>5. RulesCovered(z)' /\ FocusCovered(z)'
  BY <1>1, <1>3, CoveredStays DEF CoverInv
<1> USE DEF CoverInv
\* a step of the freezer that goes on with s2 and leaves the frozen rows
<1>6. ASSUME NEW s2, freezer'.scope = s2, frozenScope' = frozenScope,
             freezer'.pc = "rules" => RevisionRead(s2)',
             freezer'.pc \in {"units", "metrics", "focus", "publish"} => RulesCovered(s2)',
             freezer'.pc = "focus" => FocusRead(s2)',
             freezer'.pc = "publish" => FocusCovered(s2)'
      PROVE  CoverInv'
  BY <1>3, <1>5, <1>6 DEF RulesCovered, FocusCovered, RevisionRead, FocusRead
<1>a. CASE FreezeRuleRevision
  <2>1. PICK s2 : s2 = [s EXCEPT !.rev = globalRev]
    OBVIOUS
  <2>2. freezer'.scope = s2 /\ freezer'.pc = "rules" /\ frozenScope' = frozenScope
    BY <1>a, <1>2, <1>4, <2>1 DEF FreezeRuleRevision, FreezerGoes
  <2>3. s2.rev = globalRev
    BY <1>4, <2>1 DEF Scopes
  <2>4. RevisionRead(s2)'
    BY <1>1, <2>3, ReadNow, CoveredStays
  <2> QED
    BY <1>6, <2>2, <2>4
<1>b. CASE FreezeRules
  <2>1. PICK s2 : s2 = [s EXCEPT !.rules = {r \in Rules : FocusType \in assigned[r]}]
    OBVIOUS
  <2>2. freezer'.scope = s2 /\ freezer'.pc = "units" /\ frozenScope' = frozenScope /\ freezer.pc = "rules"
    BY <1>b, <1>2, <1>4, <2>1 DEF FreezeRules, FreezerGoes
  <2>3. s2.rev = s.rev /\ s2.rules = {r \in Rules : FocusType \in assigned[r]}
    BY <1>4, <2>1 DEF Scopes
  <2>4. RevisionRead(s)
    BY <1>2, <2>2
  <2>5. RulesCovered(s2)
    BY <2>3, <2>4, ReadNow DEF RevisionRead
  <2> QED
    BY <1>1, <1>6, <2>2, <2>5, CoveredStays
<1>c. CASE FreezeUnits \/ \E u \in Units : FreezeUnitMetrics(u)
  <2>1. PICK s2 : s2 = freezer'.scope
    OBVIOUS
  <2>2. /\ s2.rev = s.rev /\ s2.rules = s.rules /\ frozenScope' = frozenScope
        /\ freezer'.pc = "metrics" /\ freezer.pc \in {"units", "metrics"}
    <3>1. CASE FreezeUnits
      BY <3>1, <1>2, <1>4, <2>1 DEF FreezeUnits, FreezerGoes, Scopes
    <3>2. ASSUME NEW u \in Units, FreezeUnitMetrics(u)
          PROVE  /\ s2.rev = s.rev /\ s2.rules = s.rules /\ frozenScope' = frozenScope
                 /\ freezer'.pc = "metrics" /\ freezer.pc = "metrics"
      BY <3>2, <1>2, <1>4, <2>1 DEF FreezeUnitMetrics, FreezerGoes, Scopes
    <3> QED
      BY <1>c, <3>1, <3>2
  <2>3. RulesCovered(s2)
    BY <1>2, <2>2 DEF RulesCovered
  <2> QED
    BY <1>1, <1>6, <2>1, <2>2, <2>3, CoveredStays
<1>d. CASE FreezeFocusRevision
  <2>1. PICK s2 : s2 = [s EXCEPT !.focusRev = focusRev]
    OBVIOUS
  <2>2. freezer'.scope = s2 /\ freezer'.pc = "focus" /\ frozenScope' = frozenScope /\ freezer.pc = "metrics"
    BY <1>d, <1>2, <1>4, <2>1 DEF FreezeFocusRevision, FreezerGoes
  <2>3. s2.rev = s.rev /\ s2.rules = s.rules /\ s2.focusRev = focusRev
    BY <1>4, <2>1 DEF Scopes
  <2>4. RulesCovered(s2) /\ FocusRead(s2)
    BY <1>2, <2>2, <2>3, ReadNow DEF RulesCovered
  <2> QED
    BY <1>1, <1>6, <2>2, <2>4, CoveredStays
<1>e. CASE FreezeFocus
  <2>1. PICK s2 : s2 = [s EXCEPT !.focus = focusSet]
    OBVIOUS
  <2>2. freezer'.scope = s2 /\ freezer'.pc = "publish" /\ frozenScope' = frozenScope /\ freezer.pc = "focus"
    BY <1>e, <1>2, <1>4, <2>1 DEF FreezeFocus, FreezerGoes
  <2>3. s2.rev = s.rev /\ s2.rules = s.rules /\ s2.focusRev = s.focusRev /\ s2.focus = focusSet
    BY <1>4, <2>1 DEF Scopes
  <2>4. RulesCovered(s2) /\ FocusRead(s2)
    BY <1>2, <2>2, <2>3 DEF RulesCovered, FocusRead
  <2>5. FocusCovered(s2)
    BY <2>3, <2>4, ReadNow
  <2> QED
    BY <1>1, <1>6, <2>2, <2>4, <2>5, CoveredStays
<1>f. CASE PublishScope
  <2>1. RulesCovered(s)' /\ FocusCovered(s)'
    BY <1>1, <1>2, <1>f, CoveredStays DEF PublishScope
  <2>2. frozenScope' = s /\ freezer'.pc = "idle"
    BY <1>2, <1>f DEF PublishScope, NoFreeze
  <2> QED
    BY <2>1, <2>2 DEF RulesCovered, FocusCovered
<1> QED
  BY <1>a, <1>b, <1>c, <1>d, <1>e, <1>f DEF Freeze

\* Steps of the editors lengthen the logs and leave the freezer.
LEMMA NextCovers ==
  ASSUME TypeInv, AuditExplainsAssignments, FocusExplained, CoverInv, [ConfNext]_confVars
  PROVE  CoverInv'
<1>1. ASSUME freezer' = freezer, frozenScope' = frozenScope PROVE CoverInv'
  <2>1. PICK s : s = freezer.scope
    OBVIOUS
  <2>2. PICK z : z = frozenScope
    OBVIOUS
  <2>3. PastStays
    BY StepsKeepPast
  <2>4. /\ RulesCovered(z)' /\ FocusCovered(z)'
        /\ freezer.pc = "rules" => RevisionRead(s)'
        /\ freezer.pc \in {"units", "metrics", "focus", "publish"} => RulesCovered(s)'
        /\ freezer.pc = "focus" => FocusRead(s)'
        /\ freezer.pc = "publish" => FocusCovered(s)'
    BY <2>1, <2>2, <2>3, CoveredStays DEF CoverInv
  <2> QED
    BY <1>1, <2>1, <2>2, <2>4 DEF CoverInv, RulesCovered, FocusCovered, RevisionRead, FocusRead
<1>2. ASSUME NEW e \in Editors, Edit(e) PROVE freezer' = freezer /\ frozenScope' = frozenScope
  BY <1>2 DEF Edit, Quiet, SendEdit, RejectEdit, CompareRuleRevisions, LoadGlobalState,
              CommitAssignments, ReadFocusContext, CompareFocusRevision, ReadFocusRows,
              CommitFocus, LoadUnit, CommitUnit, LoadBinding, CommitBinding
<1>3. CASE UNCHANGED confVars
  BY <1>1, <1>3 DEF confVars
<1> QED
  BY <1>1, <1>2, <1>3, FreezeCovers DEF ConfNext

\* Nothing frozen covers revision 0.
LEMMA InitCovers == ConfInit => CoverInv
<1> SUFFICES ASSUME ConfInit PROVE CoverInv
  OBVIOUS
<1>1. Len(assignLog) = 0 /\ Len(focusLog) = 0
  BY DEF ConfInit
<1>2. ASSUME NEW r \in Rules PROVE TypesAfter(r, 0) = {}
  BY LastChangeIsLast DEF Changes, TypesAfter
<1>3. frozenScope.rules = {r \in Rules : FocusType \in TypesAfter(r, 0)}
  BY <1>2 DEF ConfInit, NoScope
<1>4. frozenScope.rev = GlobalAfter(0) /\ frozenScope.focusRev = FocusRevAfter(0) /\ frozenScope.focus = FocusAfter(0)
  BY DEF ConfInit, NoScope, GlobalAfter, FocusRevAfter, FocusAfter
<1>5. RulesCovered(frozenScope) /\ FocusCovered(frozenScope)
  BY <1>1, <1>3, <1>4 DEF RulesCovered, FocusCovered
<1> QED
  BY <1>5 DEF CoverInv, ConfInit, NoFreeze

\* A transaction has a revision above 0.
LEMMA EntriesAboveZero ==
  ASSUME LogsTyped
  PROVE  /\ Len(assignLog) \in Nat /\ Len(focusLog) \in Nat
         /\ \A i \in 1..Len(assignLog) : assignLog[i].global \in Nat \ {0}
         /\ \A i \in 1..Len(focusLog) : focusLog[i].rev \in Nat \ {0}
<1> DEFINE A == [types: TypeChanges, revs: Revisions, global: Nat \ {0}]
           F == [set: SUBSET AllPairs, rev: Nat \ {0}]
<1>1. assignLog \in Seq(A) /\ focusLog \in Seq(F)
  BY DEF LogsTyped
<1>2. (\A a \in A : a.global \in Nat \ {0}) /\ \A f \in F : f.rev \in Nat \ {0}
  OBVIOUS
<1> HIDE DEF A, F
<1>3. (\A i \in 1..Len(assignLog) : assignLog[i] \in A) /\ \A i \in 1..Len(focusLog) : focusLog[i] \in F
  BY <1>1
<1>4. Len(assignLog) \in Nat /\ Len(focusLog) \in Nat
  BY <1>1
<1> QED
  BY <1>2, <1>3, <1>4

\* A scope whose rows are read after its revision includes every change up to it.
LEMMA CoveredMeans ==
  ASSUME TypeInv, CoverInv
  PROVE  FrozenCoversRevision
<1>0. LogsTyped
  BY DEF TypeInv
<1>1. ASSUME Increasing(assignLog, LAMBDA t : t.global)
      PROVE  \E k \in 0..Len(assignLog) :
               /\ \A i \in 1..Len(assignLog) : assignLog[i].global <= frozenScope.rev => i <= k
               /\ frozenScope.rules = {r \in Rules : FocusType \in TypesAfter(r, k)}
  <2>1. PICK k \in 0..Len(assignLog) :
          /\ \E j \in 0..k : frozenScope.rev = GlobalAfter(j)
          /\ frozenScope.rules = {r \in Rules : FocusType \in TypesAfter(r, k)}
    BY DEF CoverInv, RulesCovered
  <2>2. PICK j \in 0..k : frozenScope.rev = GlobalAfter(j)
    BY <2>1
  <2>3. ASSUME NEW i \in 1..Len(assignLog), assignLog[i].global <= frozenScope.rev, ~(i <= k) PROVE FALSE
    <3>1. assignLog[i].global \in Nat \ {0} /\ j < i /\ Len(assignLog) \in Nat
      BY <1>0, <2>2, <2>3, EntriesAboveZero
    <3>2. CASE j = 0
      BY <2>2, <2>3, <3>1, <3>2 DEF GlobalAfter
    <3>3. CASE j # 0
      <4>1. j \in 1..Len(assignLog) /\ assignLog[j].global \in Nat
        BY <1>0, <2>3, <3>3, <3>1, EntriesAboveZero
      <4>2. assignLog[j].global < assignLog[i].global
        BY <1>1, <3>1, <4>1 DEF Increasing
      <4> QED
        BY <2>2, <2>3, <3>1, <3>3, <4>1, <4>2 DEF GlobalAfter
    <3> QED
      BY <3>2, <3>3
  <2> QED
    BY <2>1, <2>3
<1>2. ASSUME Increasing(focusLog, LAMBDA t : t.rev)
      PROVE  \E k \in 0..Len(focusLog) :
               /\ \A i \in 1..Len(focusLog) : focusLog[i].rev <= frozenScope.focusRev => i <= k
               /\ frozenScope.focus = FocusAfter(k)
  <2>1. PICK k \in 0..Len(focusLog) :
          /\ \E j \in 0..k : frozenScope.focusRev = FocusRevAfter(j)
          /\ frozenScope.focus = FocusAfter(k)
    BY DEF CoverInv, FocusCovered
  <2>2. PICK j \in 0..k : frozenScope.focusRev = FocusRevAfter(j)
    BY <2>1
  <2>3. ASSUME NEW i \in 1..Len(focusLog), focusLog[i].rev <= frozenScope.focusRev, ~(i <= k) PROVE FALSE
    <3>1. focusLog[i].rev \in Nat \ {0} /\ j < i /\ Len(focusLog) \in Nat
      BY <1>0, <2>2, <2>3, EntriesAboveZero
    <3>2. CASE j = 0
      BY <2>2, <2>3, <3>1, <3>2 DEF FocusRevAfter
    <3>3. CASE j # 0
      <4>1. j \in 1..Len(focusLog) /\ focusLog[j].rev \in Nat
        BY <1>0, <2>3, <3>3, <3>1, EntriesAboveZero
      <4>2. focusLog[j].rev < focusLog[i].rev
        BY <1>2, <3>1, <4>1 DEF Increasing
      <4> QED
        BY <2>2, <2>3, <3>1, <3>3, <4>1, <4>2 DEF FocusRevAfter
    <3> QED
      BY <3>2, <3>3
  <2> QED
    BY <2>1, <2>3
<1> QED
  BY <1>1, <1>2 DEF FrozenCoversRevision

\* A frozen scope is not older than the revisions it names, for any number of
\* editors and whatever they change while it is read.
THEOREM FrozenCovers == ConfSpec => []FrozenCoversRevision
<1> DEFINE Inv == TypeInv /\ AuditExplainsAssignments /\ FocusExplained /\ CoverInv
<1>1. ConfInit => Inv
  BY InitTyped, InitExplained, InitCovers
<1>2. Inv /\ [ConfNext]_confVars => Inv'
  BY NextTyped, NextExplained, NextCovers
<1>3. Inv => FrozenCoversRevision
  BY CoveredMeans
<1> QED
  BY <1>1, <1>2, <1>3, PTL DEF ConfSpec
=============================================================================
