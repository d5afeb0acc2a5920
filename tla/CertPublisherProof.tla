------------------------- MODULE CertPublisherProof -------------------------
(***************************************************************************)
(* Proofs about CertPublisher, for every set of hosts, services, places    *)
(* and versions and all bounds.                                            *)
(***************************************************************************)
EXTENDS CertPublisher, TLAPS

USE JobsAssumption, DomainOfAssumption, UnissuedAssumption, TimesAssumption,
    NoneAssumption

States == {"published", "current", "failed", None}
Statuses == [Host -> [Service -> States]]

-----------------------------------------------------------------------------
(* Type correctness.                                                       *)

LEMMA TypeParts ==
    ASSUME TypeOK
    PROVE  /\ now \in 0..MaxTime /\ upsets \in 0..MaxUpsets
           /\ alloc \in [Host -> Jobs \cup {Stopped}]
           /\ var \in [Place -> Variable] /\ raft \in Nat
           /\ secret \in [Place -> Secret \cup {None}]
           /\ held \in [Host -> [Domain -> Cert \cup {None}]]
           /\ pass \in [Host -> Publication]
           /\ status \in Statuses
BY DEF TypeOK, Statuses, States

LEMMA IdleType == Absent \in Variable /\ Idle \in Publication
BY DEF Absent, Idle, Variable, Publication

LEMMA AskingType ==
    ASSUME NEW job \in Jobs \cup {Stopped}
    PROVE  Asking(job) \subseteq Service
BY DEF Asking, Declaration, Stopped

\* What the steps make of a pass and of a variable.
LEMMA NextType ==
    ASSUME NEW T \in SUBSET Service, NEW U \in SUBSET Service
    PROVE  [Idle EXCEPT !.pc = "next", !.wanted = T, !.todo = U] \in Publication
BY IdleType DEF Publication

LEMMA ObtainType ==
    ASSUME NEW v \in Publication, NEW s \in Service, NEW p \in Place,
           NEW U \in SUBSET Service
    PROVE  [v EXCEPT !.pc = "obtain", !.service = s, !.path = p,
                     !.todo = U] \in Publication
BY DEF Publication

LEMMA SkipType ==
    ASSUME NEW v \in Publication, NEW U \in SUBSET Service
    PROVE  [v EXCEPT !.todo = U] \in Publication
BY DEF Publication

LEMMA ReadType ==
    ASSUME NEW v \in Publication, NEW c \in Cert
    PROVE  [v EXCEPT !.pc = "read", !.cert = c] \in Publication
BY DEF Publication

LEMMA PutType ==
    ASSUME NEW v \in Publication, NEW f \in Variable
    PROVE  [v EXCEPT !.pc = "put", !.found = f] \in Publication
BY DEF Publication

LEMMA MergedType ==
    ASSUME NEW v \in Variable, NEW c \in Cert, NEW n \in Nat,
           NEW d \in Domain
    PROVE  [v EXCEPT !.index = n, !.domain = d, !.cert = c, !.key = c,
                     !.notAfter = c] \in Variable
BY DEF Variable

\* What the operator writes.
LEMMA EditedType ==
    ASSUME NEW v \in Variable, NEW n \in Nat, NEW x \in Secret \cup {None}
    PROVE  /\ [v EXCEPT !.index = n, !.secret = x] \in Variable
           /\ [v EXCEPT !.index = n, !.cert = None] \in Variable
           /\ [v EXCEPT !.index = n, !.key = None] \in Variable
           /\ [v EXCEPT !.index = n, !.domain = None] \in Variable
<1>1. [v EXCEPT !.index = n, !.secret = x] \in Variable
  BY DEF Variable
<1>2. [v EXCEPT !.index = n, !.cert = None] \in Variable
  BY DEF Variable
<1>3. [v EXCEPT !.index = n, !.key = None] \in Variable
  BY DEF Variable
<1>4. [v EXCEPT !.index = n, !.domain = None] \in Variable
  BY DEF Variable
<1> QED
  BY <1>1, <1>2, <1>3, <1>4

LEMMA OperatorVariable ==
    ASSUME TypeOK, Operator
    PROVE  \E p \in Place : \E v \in Variable :
              /\ OperatorWrites(p, v)
              /\ v = Absent \/ v.index = raft + 1
<1>1. PICK p \in Place :
         \/ \E x \in Secret \cup {None} : Replace(p, x) \/ Edit(p, x)
         \/ Damage(p) \/ Remove(p)
  BY DEF Operator
<1>2. raft + 1 \in Nat /\ var[p] \in Variable /\ Absent \in Variable
  BY TypeParts, IdleType
<1>3. ASSUME NEW x \in Secret \cup {None}, Replace(p, x)
      PROVE  \E v \in Variable : /\ OperatorWrites(p, v)
                                 /\ v = Absent \/ v.index = raft + 1
  <2> DEFINE w == [Absent EXCEPT !.index = raft + 1, !.secret = x]
  <2>1. w \in Variable /\ w.index = raft + 1
    BY <1>2, EditedType DEF Absent
  <2> QED
    BY <1>3, <2>1 DEF Replace
<1>4. ASSUME NEW x \in Secret \cup {None}, Edit(p, x)
      PROVE  \E v \in Variable : /\ OperatorWrites(p, v)
                                 /\ v = Absent \/ v.index = raft + 1
  <2> DEFINE w == [var[p] EXCEPT !.index = raft + 1, !.secret = x]
  <2>1. w \in Variable
    BY <1>2, EditedType
  <2>2. w.index = raft + 1
    BY <1>2 DEF Variable
  <2> QED
    BY <1>4, <2>1, <2>2 DEF Edit
<1>5. CASE Damage(p)
  <2> DEFINE w1 == [var[p] EXCEPT !.index = raft + 1, !.cert = None]
             w2 == [var[p] EXCEPT !.index = raft + 1, !.key = None]
             w3 == [var[p] EXCEPT !.index = raft + 1, !.domain = None]
  <2>1. w1 \in Variable /\ w2 \in Variable /\ w3 \in Variable
    BY <1>2, EditedType
  <2>2. /\ w1.index = raft + 1 /\ w2.index = raft + 1
        /\ w3.index = raft + 1
    BY <1>2 DEF Variable
  <2>3. OperatorWrites(p, w1) \/ OperatorWrites(p, w2) \/ OperatorWrites(p, w3)
    BY <1>5 DEF Damage
  <2> QED
    BY <2>1, <2>2, <2>3
<1>6. CASE Remove(p)
  BY <1>2, <1>6 DEF Remove
<1> QED
  BY <1>1, <1>3, <1>4, <1>5, <1>6

LEMMA StatusTypes ==
    ASSUME NEW t \in [Service -> States], NEW s \in Service,
           NEW x \in States
    PROVE  [t EXCEPT ![s] = x] \in [Service -> States]
OBVIOUS

\* A pass goes on with the next certificate.
LEMMA ReportType ==
    ASSUME TypeOK, NEW h \in Host, NEW state \in States,
           pass[h].service \in Service, Report(h, state)
    PROVE  /\ pass' \in [Host -> Publication]
           /\ status' \in Statuses
<1>1. [Idle EXCEPT !.pc = "next", !.wanted = pass[h].wanted,
                   !.todo = pass[h].todo] \in Publication
  <2>1. /\ pass[h] \in Publication
        /\ pass[h].wanted \subseteq Service /\ pass[h].todo \subseteq Service
    BY TypeParts DEF Publication
  <2> QED
    BY <2>1, NextType
<1>2. pass' \in [Host -> Publication]
  BY <1>1, TypeParts DEF Report
<1>3. status' \in Statuses
  <2>1. status[h] \in [Service -> States]
    BY TypeParts DEF Statuses
  <2>2. [status[h] EXCEPT ![pass[h].service] = state] \in [Service -> States]
    BY <2>1, StatusTypes
  <2> QED
    BY <2>2, TypeParts DEF Report, Statuses
<1> QED
  BY <1>2, <1>3

\* The variable after a check-and-set.
LEMMA WriteType ==
    ASSUME TypeOK, NEW h \in Host, AtWork(h), pass[h].pc = "put", Write(h)
    PROVE  /\ var' \in [Place -> Variable] /\ raft' \in Nat
           /\ pass[h].path \in Place /\ pass[h].cert \in Cert
           /\ Merged(pass[h].found, pass[h].cert) \in Variable
<1>1. /\ pass[h].path \in Place /\ pass[h].cert \in Cert
      /\ pass[h].found \in Variable
  BY TypeParts DEF AtWork, Publication
<1>2. pass[h].cert.domain \in Domain
  BY <1>1 DEF Cert
<1>3. Merged(pass[h].found, pass[h].cert) \in Variable
  <2>1. raft + 1 \in Nat
    BY TypeParts
  <2> QED
    BY <1>1, <1>2, <2>1, MergedType DEF Merged
<1> QED
  BY <1>1, <1>3, TypeParts DEF Write

LEMMA InitType == Init => TypeOK
<1> SUFFICES ASSUME Init PROVE TypeOK
  OBVIOUS
<1>1. alloc \in [Host -> Jobs \cup {Stopped}]
  BY DEF Init
<1>2. pass \in [Host -> Publication] /\ var \in [Place -> Variable]
  BY IdleType DEF Init
<1> QED
  BY <1>1, <1>2 DEF Init, TypeOK

\* The steps of a connector.
LEMMA HostType ==
    ASSUME TypeOK, NEW h \in Host, AtWork(h), HeldForDomain,
           \/ Works(h) \/ PutUnanswered(h) \/ Fails(h) \/ Crash(h)
           \/ \E s \in Service : Unread(h, s)
    PROVE  TypeOK'
<1>1. CASE StartPublish(h)
  <2>1. Asking(alloc[h]) \subseteq Service
    BY TypeParts, AskingType
  <2>2. pass' \in [Host -> Publication]
    BY <1>1, <2>1, NextType, TypeParts DEF StartPublish
  <2> QED
    BY <1>1, <2>2, TypeParts
    DEF StartPublish, connectorFrame, TypeOK, Statuses, States
<1>2. ASSUME NEW s \in Service, Attribute(h, s) PROVE TypeOK'
  <2>1. pass' \in [Host -> Publication]
    <3>1. PICK p \in Place :
            pass' = [pass EXCEPT ![h] = [@ EXCEPT !.pc = "obtain",
                        !.service = s, !.path = p, !.todo = Rest(h, s)]]
      BY <1>2 DEF Attribute
    <3>2. pass[h] \in Publication /\ Rest(h, s) \in SUBSET Service
      BY TypeParts DEF Publication, Rest
    <3>3. [pass[h] EXCEPT !.pc = "obtain", !.service = s, !.path = p,
                          !.todo = Rest(h, s)] \in Publication
      BY <3>2, ObtainType
    <3> QED
      BY <3>1, <3>3, TypeParts
  <2> QED
    BY <1>2, <2>1, TypeParts
    DEF Attribute, Take, connectorFrame, TypeOK, Statuses, States
<1>3. ASSUME NEW s \in Service, Unattributed(h, s) \/ Unread(h, s)
      PROVE  TypeOK'
  <2>1. pass' \in [Host -> Publication]
    <3>1. [pass[h] EXCEPT !.todo = Rest(h, s)] \in Publication
      <4>1. pass[h] \in Publication /\ Rest(h, s) \in SUBSET Service
        BY TypeParts DEF Publication, Rest
      <4> QED
        BY <4>1, SkipType
    <3> QED
      BY <1>3, <3>1, TypeParts DEF Unattributed, Unread, SkipOne
  <2>2. status' \in Statuses
    <3>1. status[h] \in [Service -> States] /\ "failed" \in States
      BY TypeParts DEF Statuses, States
    <3>2. [status[h] EXCEPT ![s] = "failed"] \in [Service -> States]
      BY <3>1, StatusTypes
    <3> QED
      BY <1>3, <3>2, TypeParts DEF Unattributed, Unread, SkipOne, Statuses
  <2>3. upsets' \in 0..MaxUpsets
    BY <1>3, TypeParts DEF Unattributed, Unread, Upset
  <2> QED
    BY <1>3, <2>1, <2>2, <2>3, TypeParts
    DEF Unattributed, Unread, SkipOne, Take, connectorFrame, TypeOK,
        Statuses, States
<1>4. CASE Obtain(h)
  <2> DEFINE d == DomainOf[pass[h].service]
             c == IF held[h][d] # None /\ Fresh(held[h][d])
                  THEN held[h][d] ELSE Issued(h, d)
  <2>1. d \in Domain
    BY <1>4 DEF Obtain, At, AtWork
  <2>2. Issued(h, d) \in Cert
    BY <2>1, TypeParts DEF Issued, Cert
  <2>3. c \in Cert
    BY <2>1, <2>2, TypeParts
  <2> HIDE DEF c
  <2>4. /\ held' = [held EXCEPT ![h] = [@ EXCEPT ![d] = c]]
        /\ pass' = [pass EXCEPT ![h] = [@ EXCEPT !.pc = "read", !.cert = c]]
    BY <1>4 DEF Obtain, c
  <2>5. pass' \in [Host -> Publication]
    BY <2>3, <2>4, ReadType, TypeParts
  <2>6. held' \in [Host -> [Domain -> Cert \cup {None}]]
    BY <2>1, <2>3, <2>4, TypeParts
  <2> QED
    BY <1>4, <2>5, <2>6, TypeParts
    DEF Obtain, connectorFrame, TypeOK, Statuses, States
<1>5. CASE NotIssued(h) \/ Conflict(h) \/ Fails(h)
  <2>1. pass[h].service \in Service
    BY <1>5 DEF NotIssued, Conflict, Fails, At, AtWork
  <2>2. Report(h, "failed") /\ "failed" \in States
    BY <1>5 DEF NotIssued, Conflict, Fails, States
  <2>3. upsets' \in 0..MaxUpsets
    BY <1>5, TypeParts DEF NotIssued, Conflict, Fails, Upset
  <2>4. pass' \in [Host -> Publication] /\ status' \in Statuses
    BY <2>1, <2>2, ReportType
  <2> QED
    BY <1>5, <2>3, <2>4, TypeParts
    DEF NotIssued, Conflict, Fails, connectorFrame, TypeOK, Statuses, States
<1>6. CASE Read(h)
  <2>1. pass[h].service \in Service /\ pass[h].path \in Place
    BY <1>6 DEF Read, At, AtWork
  <2>2. CASE Report(h, "current")
    <3>1. pass' \in [Host -> Publication] /\ status' \in Statuses
      BY <2>1, <2>2, ReportType DEF States
    <3> QED
      BY <1>6, <3>1, TypeParts
      DEF Read, connectorFrame, TypeOK, Statuses, States
  <2>3. CASE /\ pass' = [pass EXCEPT ![h] = [@ EXCEPT !.pc = "put",
                                     !.found = var[pass[h].path]]]
             /\ UNCHANGED status
    <3>1. var[pass[h].path] \in Variable
      BY <2>1, TypeParts
    <3>2. pass' \in [Host -> Publication]
      BY <2>3, <3>1, PutType, TypeParts
    <3> QED
      BY <1>6, <2>3, <3>2, TypeParts
      DEF Read, connectorFrame, TypeOK, Statuses, States
  <2> QED
    BY <1>6, <2>2, <2>3 DEF Read
<1>7. CASE Put(h) \/ PutUnanswered(h)
  <2>1. pass[h].service \in Service /\ pass[h].pc = "put" /\ Write(h)
    BY <1>7 DEF Put, PutUnanswered, At, AtWork
  <2>2. \E state \in States : Report(h, state)
    BY <1>7 DEF Put, PutUnanswered, States
  <2>3. upsets' \in 0..MaxUpsets
    BY <1>7, TypeParts DEF Put, PutUnanswered, Upset
  <2>4. pass' \in [Host -> Publication] /\ status' \in Statuses
    BY <2>1, <2>2, ReportType
  <2>5. var' \in [Place -> Variable] /\ raft' \in Nat
    BY <2>1, WriteType
  <2> QED
    BY <1>7, <2>3, <2>4, <2>5, TypeParts
    DEF Put, PutUnanswered, connectorFrame, TypeOK, Statuses, States
<1>8. CASE EndPublish(h) \/ Crash(h)
  <2>1. pass' \in [Host -> Publication]
    BY <1>8, IdleType, TypeParts DEF EndPublish, Crash
  <2>2. CASE EndPublish(h)
    <3>1. [s \in Service |-> IF s \in pass[h].wanted
                             THEN status[h][s] ELSE None]
            \in [Service -> States]
      BY TypeParts DEF Statuses, States
    <3>2. status' \in Statuses
      BY <2>2, <3>1, TypeParts DEF EndPublish, Statuses
    <3> QED
      BY <2>1, <2>2, <3>2, TypeParts
      DEF EndPublish, connectorFrame, TypeOK, Statuses, States
  <2>3. CASE Crash(h)
    <3>1. status' \in Statuses
      BY <2>3, TypeParts DEF Crash, Statuses, States
    <3> QED
      BY <2>1, <2>3, <3>1, TypeParts
      DEF Crash, Upset, connectorFrame, TypeOK, Statuses, States
  <2> QED
    BY <1>8, <2>2, <2>3
<1> QED
  BY <1>1, <1>2, <1>3, <1>4, <1>5, <1>6, <1>7, <1>8 DEF Works

\* The steps of everybody else.
LEMMA OthersType ==
    ASSUME TypeOK,
           \/ \E h \in Host : \E job \in Jobs \cup {Stopped} : Deploy(h, job)
           \/ Operator \/ Tick
    PROVE  TypeOK'
<1>1. ASSUME NEW h \in Host, NEW job \in Jobs \cup {Stopped}, Deploy(h, job)
      PROVE  TypeOK'
  BY <1>1, TypeParts DEF Deploy, Upset, TypeOK, Statuses, States
<1>2. ASSUME NEW p \in Place, NEW v \in Variable, OperatorWrites(p, v)
      PROVE  TypeOK'
  <2>1. v.secret \in Secret \cup {None}
    BY DEF Variable
  <2>2. var' \in [Place -> Variable]
    BY <1>2, TypeParts DEF OperatorWrites
  <2>3. secret' \in [Place -> Secret \cup {None}]
    BY <1>2, <2>1, TypeParts DEF OperatorWrites
  <2>4. raft' \in Nat /\ upsets' \in 0..MaxUpsets
    BY <1>2, TypeParts DEF OperatorWrites, Upset
  <2> QED
    BY <1>2, <2>2, <2>3, <2>4, TypeParts
    DEF OperatorWrites, TypeOK, Statuses, States
<1>3. CASE Operator
  BY <1>2, <1>3, OperatorVariable
<1>4. CASE Tick
  BY <1>4, TypeParts DEF Tick, nomadVars, TypeOK, Statuses, States
<1> QED
  BY <1>1, <1>3, <1>4

-----------------------------------------------------------------------------
(* The inductive invariant.                                                *)

Moves(h) ==
    \/ Works(h) \/ PutUnanswered(h) \/ Fails(h) \/ Crash(h)
    \/ \E s \in Service : Unread(h, s)

\* Somebody writes a variable.
Writing ==
    \E p \in Place : \E v \in Variable :
        /\ var' = [var EXCEPT ![p] = v] /\ raft' = raft + 1
        /\ v = Absent \/ v.index = raft + 1

LEMMA NextCases ==
    Next <=> \/ \E h \in Host : Moves(h)
             \/ \E h \in Host : \E job \in Jobs \cup {Stopped} : Deploy(h, job)
             \/ Operator
             \/ Tick
BY DEF Next, Moves

\* A check-and-set succeeds only on what was read.
LEMMA WriteFacts ==
    ASSUME IInv, NEW h \in Host, pass[h].pc = "put", Write(h)
    PROVE  /\ Writing
           /\ pass[h].path \in Place
           /\ pass[h].found = var[pass[h].path]
           /\ ~StoredUsable(var[pass[h].path], pass[h].cert.domain)
           /\ var' = [var EXCEPT ![pass[h].path] =
                         Merged(var[pass[h].path], pass[h].cert)]
<1>1. TypeOK /\ AtWork(h) /\ Drafted(h)
  BY DEF IInv
<1>2. /\ pass[h].path \in Place
      /\ Merged(pass[h].found, pass[h].cert) \in Variable
  BY <1>1, WriteType
<1>3. pass[h].found = var[pass[h].path]
  BY <1>1 DEF Drafted, Write
<1>4. Merged(pass[h].found, pass[h].cert).index = raft + 1
  <2>1. pass[h].found \in Variable
    BY <1>1, TypeParts DEF Publication
  <2> QED
    BY <2>1 DEF Merged, Variable
<1>5. Writing
  BY <1>2, <1>4 DEF Writing, Write
<1> QED
  BY <1>1, <1>2, <1>3, <1>5 DEF Write, Drafted

\* A certificate that is due stays due.
LEMMA StaysDue ==
    ASSUME TypeOK, NEW v \in Variable, NEW d \in Domain,
           now' = now \/ now' = now + 1, ~StoredUsable(v, d)
    PROVE  ~StoredUsable(v, d)'
<1>1. now \in Nat /\ MinValidity \in Nat
  BY TypeParts
<1>2. ASSUME v.cert # None PROVE v.cert.notAfter \in Nat
  <2>1. v.cert \in Cert
    BY <1>2 DEF Variable
  <2> QED
    BY <2>1 DEF Cert
<1> QED
  BY <1>1, <1>2 DEF StoredUsable, Fresh

LEMMA VariablesIndexed ==
    ASSUME IInv, Writing
    PROVE  \A p \in Place : Indexed(var[p])'
<1>1. /\ raft \in Nat /\ var \in [Place -> Variable]
      /\ \A p \in Place : Indexed(var[p])
  BY TypeParts DEF IInv
<1>2. PICK q \in Place, v \in Variable :
        /\ var' = [var EXCEPT ![q] = v] /\ raft' = raft + 1
        /\ v = Absent \/ v.index = raft + 1
  BY DEF Writing
<1> SUFFICES ASSUME NEW p \in Place PROVE Indexed(var[p])'
  OBVIOUS
<1>3. CASE p = q
  <2>1. var'[p] = v
    BY <1>1, <1>2, <1>3
  <2> QED
    BY <1>1, <1>2, <2>1 DEF Indexed, Absent
<1>4. CASE p # q
  <2>1. var'[p] = var[p] /\ var[p].index \in Nat
    BY <1>1, <1>2, <1>4 DEF Variable
  <2> QED
    BY <1>1, <1>2, <2>1 DEF Indexed
<1> QED
  BY <1>3, <1>4

\* What others do leaves a draft right.
LEMMA DraftKept ==
    ASSUME IInv, NEW g \in Host, pass'[g] = pass[g],
           now' = now \/ now' = now + 1,
           UNCHANGED <<var, raft>> \/ Writing
    PROVE  Drafted(g)'
<1> SUFFICES ASSUME pass[g].pc = "put"
             PROVE  /\ Indexed(pass[g].found)'
                    /\ Unmodified(pass[g].path, pass[g].found)' =>
                          var'[pass[g].path] = pass[g].found
                    /\ ~StoredUsable(pass[g].found, pass[g].cert.domain)'
  BY DEF Drafted
<1> DEFINE v == pass[g].found
           p == pass[g].path
<1>1. /\ v \in Variable /\ p \in Place /\ pass[g].cert.domain \in Domain
      /\ raft \in Nat /\ var \in [Place -> Variable] /\ v.index \in Nat
  BY TypeParts DEF IInv, AtWork, Publication, Variable
<1>2. /\ Indexed(v) /\ ~StoredUsable(v, pass[g].cert.domain)
      /\ var[p].index = v.index => var[p] = v
  BY DEF IInv, Drafted, Unmodified
<1>3. /\ pass'[g].found = v /\ pass'[g].path = p
      /\ pass'[g].cert.domain = pass[g].cert.domain
  OBVIOUS
<1>4. ~StoredUsable(pass[g].found, pass[g].cert.domain)'
  BY <1>1, <1>2, <1>3, StaysDue DEF IInv, StoredUsable, Fresh
<1>5. CASE UNCHANGED <<var, raft>>
  BY <1>2, <1>3, <1>4, <1>5 DEF Indexed, Unmodified
<1>6. CASE Writing
  <2>1. PICK q \in Place, w \in Variable :
          /\ var' = [var EXCEPT ![q] = w] /\ raft' = raft + 1
          /\ w = Absent \/ w.index = raft + 1
    BY <1>6 DEF Writing
  <2>2. Indexed(pass[g].found)'
    BY <1>1, <1>2, <1>3, <2>1 DEF Indexed
  <2>3. ASSUME var'[p].index = v.index PROVE var'[p] = v
    <3>1. CASE p # q
      BY <1>1, <1>2, <2>1, <2>3, <3>1
    <3>2. CASE p = q
      <4>1. var'[p] = w /\ w.index = v.index
        BY <1>1, <2>1, <2>3, <3>2
      <4>2. w = Absent
        BY <1>1, <1>2, <2>1, <4>1 DEF Indexed
      <4>3. v = Absent
        BY <1>2, <4>1, <4>2 DEF Indexed, Absent
      <4> QED
        BY <4>1, <4>2, <4>3
    <3> QED
      BY <3>1, <3>2
  <2> QED
    BY <1>3, <1>4, <2>2, <2>3 DEF Unmodified
<1> QED
  BY <1>5, <1>6

\* What a step of a connector is to the others, and where it leaves its own.
LEMMA MoveFacts ==
    ASSUME IInv, NEW h \in Host, Moves(h)
    PROVE  /\ \A g \in Host \ {h} : pass'[g] = pass[g]
           /\ UNCHANGED <<now, secret>>
           /\ UNCHANGED <<var, raft>> \/ (pass[h].pc = "put" /\ Write(h))
           /\ HeldForDomain'
           /\ pass'[h].pc = "put" => Read(h) /\ ~UpToDate(var[pass[h].path],
                                                          pass[h].cert)
           /\ AtWork(h)'
<1>1. /\ TypeOK /\ AtWork(h) /\ HeldForDomain
      /\ pass \in [Host -> Publication] /\ pass[h] \in Publication
      /\ held \in [Host -> [Domain -> Cert \cup {None}]]
  BY TypeParts DEF IInv
<1>2. ASSUME NEW r \in Publication, pass' = [pass EXCEPT ![h] = r]
      PROVE  pass'[h] = r /\ \A g \in Host \ {h} : pass'[g] = pass[g]
  BY <1>1, <1>2
<1> USE DEF connectorFrame
<1>3. ASSUME NEW T \in SUBSET Service, NEW U \in SUBSET Service,
             pass' = [pass EXCEPT ![h] = [Idle EXCEPT !.pc = "next",
                                          !.wanted = T, !.todo = U]]
      PROVE  /\ \A g \in Host \ {h} : pass'[g] = pass[g]
             /\ pass'[h].pc = "next"
  <2>1. [Idle EXCEPT !.pc = "next", !.wanted = T, !.todo = U] \in Publication
    BY NextType
  <2>2. [Idle EXCEPT !.pc = "next", !.wanted = T, !.todo = U].pc = "next"
    BY DEF Idle
  <2> QED
    BY <1>2, <1>3, <2>1, <2>2
<1>4. ASSUME NEW state, Report(h, state)
      PROVE  /\ \A g \in Host \ {h} : pass'[g] = pass[g]
             /\ pass'[h].pc = "next"
  <2>1. pass[h].wanted \subseteq Service /\ pass[h].todo \subseteq Service
    BY <1>1 DEF Publication
  <2> QED
    BY <1>3, <1>4, <2>1 DEF Report
<1>5. ASSUME pass'[h].pc \in {"idle", "next"}
      PROVE  AtWork(h)' /\ pass'[h].pc # "put"
  BY <1>5 DEF AtWork
<1>6. CASE StartPublish(h)
  <2>1. Asking(alloc[h]) \subseteq Service
    BY <1>1, TypeParts, AskingType
  <2>2. /\ \A g \in Host \ {h} : pass'[g] = pass[g]
        /\ pass'[h].pc = "next"
    BY <1>3, <1>6, <2>1 DEF StartPublish
  <2> QED
    BY <1>1, <1>5, <1>6, <2>2 DEF StartPublish, HeldForDomain
<1>7. ASSUME NEW s \in Service, Attribute(h, s)
      PROVE  /\ \A g \in Host \ {h} : pass'[g] = pass[g]
             /\ UNCHANGED <<now, secret, var, raft, held>>
             /\ pass'[h].pc = "obtain" /\ AtWork(h)'
  <2>1. PICK p \in Place :
          pass' = [pass EXCEPT ![h] = [@ EXCEPT !.pc = "obtain",
                      !.service = s, !.path = p, !.todo = Rest(h, s)]]
    BY <1>7 DEF Attribute
  <2> DEFINE r == [pass[h] EXCEPT !.pc = "obtain", !.service = s,
                                  !.path = p, !.todo = Rest(h, s)]
  <2>2. r \in Publication
    BY <1>1, ObtainType DEF Rest, Publication
  <2>3. r.pc = "obtain" /\ r.service = s /\ r.path = p
    BY <1>1 DEF Publication
  <2> HIDE DEF r
  <2>4. pass' = [pass EXCEPT ![h] = r]
    BY <2>1 DEF r
  <2>5. pass'[h] = r /\ \A g \in Host \ {h} : pass'[g] = pass[g]
    BY <1>2, <2>2, <2>4
  <2> QED
    BY <1>7, <2>3, <2>5 DEF Attribute, Take, AtWork
<1>8. ASSUME NEW s \in Service, Unattributed(h, s) \/ Unread(h, s)
      PROVE  /\ \A g \in Host \ {h} : pass'[g] = pass[g]
             /\ UNCHANGED <<now, secret, var, raft, held>>
             /\ pass'[h].pc = "next"
  <2> DEFINE r == [pass[h] EXCEPT !.todo = Rest(h, s)]
  <2>1. pass' = [pass EXCEPT ![h] = r] /\ pass[h].pc = "next"
    BY <1>8 DEF Unattributed, Unread, SkipOne, Take, At
  <2>2. r \in Publication
    BY <1>1, SkipType DEF Rest, Publication
  <2>3. r.pc = "next"
    BY <1>1, <2>1 DEF Publication
  <2> HIDE DEF r
  <2>4. pass'[h] = r /\ \A g \in Host \ {h} : pass'[g] = pass[g]
    BY <1>2, <2>1, <2>2
  <2> QED
    BY <1>8, <2>3, <2>4 DEF Unattributed, Unread, SkipOne, Take
<1>9. CASE Obtain(h)
  <2> DEFINE d == DomainOf[pass[h].service]
             c == IF held[h][d] # None /\ Fresh(held[h][d])
                  THEN held[h][d] ELSE Issued(h, d)
             r == [pass[h] EXCEPT !.pc = "read", !.cert = c]
  <2>1. /\ pass[h].service \in Service /\ pass[h].path \in Place
        /\ d \in Domain
    BY <1>1, <1>9 DEF Obtain, At, AtWork
  <2>2. Issued(h, d) \in Cert /\ Issued(h, d).domain = d
    BY <1>1, <2>1, TypeParts DEF Issued, Cert
  <2>3. c \in Cert /\ c.domain = d /\ c # None
    BY <1>1, <2>1, <2>2 DEF HeldForDomain
  <2> HIDE DEF c
  <2>4. r \in Publication
    BY <1>1, <2>3, ReadType
  <2>5. /\ r.pc = "read" /\ r.cert = c /\ r.service = pass[h].service
        /\ r.path = pass[h].path
    BY <1>1 DEF Publication
  <2>6. pass' = [pass EXCEPT ![h] = r]
    BY <1>9 DEF Obtain, c
  <2>7. held' = [held EXCEPT ![h] = [@ EXCEPT ![d] = c]]
    BY <1>9 DEF Obtain, c
  <2> HIDE DEF r
  <2>8. pass'[h] = r /\ \A g \in Host \ {h} : pass'[g] = pass[g]
    BY <1>2, <2>4, <2>6
  <2>9. AtWork(h)'
    BY <2>1, <2>3, <2>5, <2>8 DEF AtWork
  <2>10. HeldForDomain'
    BY <1>1, <2>1, <2>3, <2>7 DEF HeldForDomain
  <2> QED
    BY <1>9, <2>5, <2>8, <2>9, <2>10 DEF Obtain
<1>10. CASE NotIssued(h) \/ Conflict(h) \/ Fails(h)
  BY <1>1, <1>4, <1>5, <1>10 DEF NotIssued, Conflict, Fails, HeldForDomain
<1>11. CASE Read(h)
  <2>1. CASE UpToDate(var[pass[h].path], pass[h].cert)
    <3>1. Report(h, "current")
      BY <1>11, <2>1 DEF Read
    <3> QED
      BY <1>1, <1>4, <1>5, <1>11, <3>1 DEF Read, HeldForDomain
  <2>2. CASE ~UpToDate(var[pass[h].path], pass[h].cert)
    <3> DEFINE r == [pass[h] EXCEPT !.pc = "put",
                                    !.found = var[pass[h].path]]
    <3>1. /\ pass[h].service \in Service /\ pass[h].path \in Place
          /\ pass[h].cert # None
          /\ pass[h].cert.domain = DomainOf[pass[h].service]
      BY <1>1, <1>11 DEF Read, At, AtWork
    <3>2. r \in Publication
      BY <1>1, <3>1, PutType, TypeParts
    <3>3. /\ r.service = pass[h].service /\ r.path = pass[h].path
          /\ r.cert = pass[h].cert
      BY <1>1 DEF Publication
    <3>4. pass' = [pass EXCEPT ![h] = r]
      BY <1>11, <2>2 DEF Read
    <3> HIDE DEF r
    <3>5. pass'[h] = r /\ \A g \in Host \ {h} : pass'[g] = pass[g]
      BY <1>2, <3>2, <3>4
    <3> QED
      BY <1>1, <1>11, <2>2, <3>1, <3>3, <3>5
      DEF Read, AtWork, HeldForDomain
  <2> QED
    BY <2>1, <2>2
<1>12. CASE Put(h) \/ PutUnanswered(h)
  BY <1>1, <1>4, <1>5, <1>12 DEF Put, PutUnanswered, At, HeldForDomain
<1>13. CASE EndPublish(h) \/ Crash(h)
  <2>1. pass' = [pass EXCEPT ![h] = Idle]
    BY <1>13 DEF EndPublish, Crash
  <2>2. pass'[h] = Idle /\ \A g \in Host \ {h} : pass'[g] = pass[g]
    BY <1>2, <2>1, IdleType
  <2> QED
    BY <1>1, <1>5, <1>13, <2>2 DEF EndPublish, Crash, Idle, HeldForDomain
<1>14. ASSUME UNCHANGED <<now, secret, var, raft, held>>,
              \A g \in Host \ {h} : pass'[g] = pass[g],
              AtWork(h)', pass'[h].pc # "put"
       PROVE  /\ UNCHANGED <<now, secret>>
              /\ UNCHANGED <<var, raft>>
              /\ HeldForDomain'
  BY <1>1, <1>14 DEF HeldForDomain
<1> QED
  BY <1>5, <1>6, <1>7, <1>8, <1>9, <1>10, <1>11, <1>12, <1>13, <1>14
  DEF Moves, Works

LEMMA SecretStep ==
    ASSUME IInv, NEW h \in Host, UNCHANGED secret,
           UNCHANGED <<var, raft>> \/ (pass[h].pc = "put" /\ Write(h))
    PROVE  SecretsKept'
<1>1. CASE UNCHANGED <<var, raft>>
  BY <1>1 DEF IInv, SecretsKept
<1>2. CASE pass[h].pc = "put" /\ Write(h)
  <2> DEFINE p == pass[h].path
             w == Merged(var[p], pass[h].cert)
  <2>1. p \in Place /\ var' = [var EXCEPT ![p] = w]
    BY <1>2, WriteFacts
  <2>2. var \in [Place -> Variable] /\ var[p] \in Variable
    BY <2>1, TypeParts DEF IInv
  <2>3. w.secret = var[p].secret
    BY <2>2 DEF Merged, Variable
  <2> HIDE DEF w
  <2> QED
    BY <2>1, <2>2, <2>3 DEF IInv, SecretsKept
<1> QED
  BY <1>1, <1>2

LEMMA HostStep ==
    ASSUME IInv, NEW h \in Host, Moves(h)
    PROVE  IInv'
<1>1. /\ \A g \in Host \ {h} : pass'[g] = pass[g]
      /\ UNCHANGED <<now, secret>>
      /\ UNCHANGED <<var, raft>> \/ (pass[h].pc = "put" /\ Write(h))
      /\ HeldForDomain'
      /\ pass'[h].pc = "put" => Read(h) /\ ~UpToDate(var[pass[h].path],
                                                     pass[h].cert)
      /\ AtWork(h)'
  BY MoveFacts
<1>2. TypeOK'
  BY HostType DEF IInv, Moves
<1>3. UNCHANGED <<var, raft>> \/ Writing
  BY <1>1, WriteFacts
<1>4. \A p \in Place : Indexed(var[p])'
  <2>1. CASE UNCHANGED <<var, raft>>
    BY <2>1 DEF IInv, Indexed
  <2> QED
    BY <1>3, <2>1, VariablesIndexed
<1>5. ASSUME NEW g \in Host PROVE AtWork(g)' /\ Drafted(g)'
  <2>1. CASE g # h
    <3>1. pass'[g] = pass[g] /\ AtWork(g)
      BY <1>1, <2>1 DEF IInv
    <3> QED
      BY <1>1, <1>3, <3>1, DraftKept DEF AtWork
  <2>2. CASE g = h /\ pass'[h].pc = "put"
    <3>1. Read(h) /\ ~UpToDate(var[pass[h].path], pass[h].cert)
      BY <1>1, <2>2
    <3> DEFINE r == [pass[h] EXCEPT !.pc = "put",
                                    !.found = var[pass[h].path]]
    <3>2. pass' = [pass EXCEPT ![h] = r] /\ UNCHANGED <<now, var, raft>>
      BY <3>1 DEF Read, connectorFrame
    <3>3. pass \in [Host -> Publication] /\ pass[h] \in Publication
      BY TypeParts DEF IInv
    <3>4. /\ r.path = pass[h].path /\ r.cert = pass[h].cert
          /\ r.found = var[pass[h].path]
      BY <3>3 DEF Publication
    <3> HIDE DEF r
    <3>5. pass'[h] = r
      BY <3>2, <3>3
    <3>6. pass[h].path \in Place
      BY <3>1 DEF IInv, AtWork, Read, At
    <3>7. Indexed(var[pass[h].path])
      BY <3>6 DEF IInv
    <3>8. ~StoredUsable(var[pass[h].path], pass[h].cert.domain)
      BY <3>1 DEF UpToDate
    <3> QED
      BY <1>1, <2>2, <3>2, <3>4, <3>5, <3>7, <3>8
      DEF Drafted, Indexed, Unmodified, StoredUsable, Fresh
  <2>3. CASE g = h /\ pass'[h].pc # "put"
    BY <1>1, <2>3 DEF Drafted
  <2> QED
    BY <2>1, <2>2, <2>3
<1>6. SecretsKept'
  BY <1>1, SecretStep
<1> QED
  BY <1>1, <1>2, <1>4, <1>5, <1>6 DEF IInv

LEMMA OthersStep ==
    ASSUME IInv,
           \/ \E h \in Host : \E job \in Jobs \cup {Stopped} : Deploy(h, job)
           \/ Operator \/ Tick
    PROVE  IInv'
<1>1. TypeOK'
  BY OthersType DEF IInv
<1>2. /\ UNCHANGED <<pass, held>>
      /\ now' = now \/ now' = now + 1
  <2>1. ASSUME NEW h \in Host, NEW job \in Jobs \cup {Stopped}, Deploy(h, job)
        PROVE  UNCHANGED <<pass, held, now>>
    BY <2>1 DEF Deploy
  <2>2. CASE Operator
    BY <2>2, OperatorVariable DEF IInv, OperatorWrites
  <2>3. CASE Tick
    BY <2>3 DEF Tick
  <2> QED
    BY <2>1, <2>2, <2>3
<1>3. /\ UNCHANGED <<var, raft>> \/ Writing
      /\ SecretsKept'
  <2>1. CASE UNCHANGED <<var, raft, secret>>
    BY <2>1 DEF IInv, SecretsKept
  <2>2. CASE Operator
    <3>1. PICK p \in Place, v \in Variable :
            OperatorWrites(p, v) /\ (v = Absent \/ v.index = raft + 1)
      BY <2>2, OperatorVariable DEF IInv
    <3>2. Writing
      BY <3>1 DEF OperatorWrites, Writing
    <3>3. /\ var \in [Place -> Variable]
          /\ secret \in [Place -> Secret \cup {None}]
      BY TypeParts DEF IInv
    <3>4. SecretsKept'
      BY <3>1, <3>3 DEF OperatorWrites, IInv, SecretsKept
    <3> QED
      BY <3>2, <3>4
  <2>3. CASE Tick \/ \E h \in Host : \E job \in Jobs \cup {Stopped} :
                        Deploy(h, job)
    BY <2>1, <2>3 DEF Tick, Deploy, nomadVars
  <2> QED
    BY <2>2, <2>3
<1>4. \A p \in Place : Indexed(var[p])'
  <2>1. CASE UNCHANGED <<var, raft>>
    BY <2>1 DEF IInv, Indexed
  <2> QED
    BY <1>3, <2>1, VariablesIndexed
<1>5. ASSUME NEW g \in Host PROVE AtWork(g)' /\ Drafted(g)'
  BY <1>2, <1>3, DraftKept DEF IInv, AtWork
<1>6. HeldForDomain'
  BY <1>2 DEF IInv, HeldForDomain
<1> QED
  BY <1>1, <1>3, <1>4, <1>5, <1>6 DEF IInv

LEMMA InitInductive == Init => IInv
<1> SUFFICES ASSUME Init PROVE IInv
  OBVIOUS
<1>1. TypeOK /\ SecretsKept
  BY InitType DEF Init, SecretsKept, Absent
<1>2. HeldForDomain /\ \A p \in Place : Indexed(var[p])
  BY DEF Init, HeldForDomain, Indexed, Absent
<1>3. \A h \in Host : AtWork(h) /\ Drafted(h)
  BY DEF Init, Idle, AtWork, Drafted
<1> QED
  BY <1>1, <1>2, <1>3 DEF IInv

LEMMA InductiveStep == IInv /\ [Next]_vars => IInv'
<1> SUFFICES ASSUME IInv, [Next]_vars PROVE IInv'
  OBVIOUS
<1>1. CASE UNCHANGED vars
  <2>1. TypeOK'
    BY <1>1, TypeParts
    DEF IInv, vars, nomadVars, TypeOK, Statuses, States
  <2>2. \A h \in Host : AtWork(h)' /\ Drafted(h)'
    BY <1>1 DEF IInv, vars, nomadVars, AtWork, Drafted, Indexed, Unmodified,
                StoredUsable, Fresh
  <2> QED
    BY <1>1, <2>1, <2>2
    DEF IInv, vars, nomadVars, SecretsKept, HeldForDomain, Indexed
<1>2. CASE Next
  BY <1>2, NextCases, HostStep, OthersStep
<1> QED
  BY <1>1, <1>2

(***************************************************************************)
(* The invariant of the publishers: what a pass read is what it replaces.  *)
(***************************************************************************)
THEOREM Inductive == Spec => []IInv
BY InitInductive, InductiveStep, PTL DEF Spec

\* Every variable of the publishers keeps its type.
THEOREM TypeCorrect == Spec => []TypeOK
<1>1. IInv => TypeOK
  BY DEF IInv
<1> QED
  BY <1>1, Inductive, PTL

(***************************************************************************)
(* publishOne never loses or revives an item of the operator's, whatever   *)
(* he and the other connectors write between its read and its write.       *)
(***************************************************************************)
THEOREM OperatorItemsKept == Spec => []SecretsKept
<1>1. IInv => SecretsKept
  BY DEF IInv
<1> QED
  BY <1>1, Inductive, PTL

LEMMA WritesWhenDue ==
    IInv /\ [Next]_vars =>
        \A p \in Place :
            LET c == var'[p].cert
            IN  c \notin {None, var[p].cert} => ~Servable(var[p], c.domain)
<1> SUFFICES ASSUME IInv, [Next]_vars, NEW p \in Place,
                    var'[p].cert \notin {None, var[p].cert}
             PROVE  ~Servable(var[p], var'[p].cert.domain)
  OBVIOUS
<1>1. var \in [Place -> Variable] /\ raft \in Nat
  BY TypeParts DEF IInv
<1>2. ~Operator
  <2>1. SUFFICES ASSUME Operator PROVE FALSE
    OBVIOUS
  <2>2. PICK q \in Place :
           \/ \E x \in Secret \cup {None} : Replace(q, x) \/ Edit(q, x)
           \/ Damage(q) \/ Remove(q)
    BY <2>1 DEF Operator
  <2>3. \A v, x : [Absent EXCEPT !.index = v, !.secret = x].cert = None
    BY DEF Absent
  <2>4. \A n, x : /\ [var[q] EXCEPT !.index = n, !.secret = x].cert
                       = var[q].cert
                  /\ [var[q] EXCEPT !.index = n, !.cert = None].cert = None
                  /\ [var[q] EXCEPT !.index = n, !.key = None].cert
                       = var[q].cert
                  /\ [var[q] EXCEPT !.index = n, !.domain = None].cert
                       = var[q].cert
    BY <1>1 DEF Variable
  <2>5. ASSUME NEW v, OperatorWrites(q, v)
        PROVE  var'[q] = v /\ (p # q => var'[p] = var[p])
    BY <1>1, <2>5 DEF OperatorWrites
  <2>6. var'[q].cert \in {None, var[q].cert} /\ (p # q => var'[p] = var[p])
    <3>1. ASSUME NEW x, Replace(q, x)
          PROVE  var'[q].cert = None /\ (p # q => var'[p] = var[p])
      <4> DEFINE w == [Absent EXCEPT !.index = raft + 1, !.secret = x]
      <4>1. w.cert = None
        BY <2>3
      <4>2. OperatorWrites(q, w)
        BY <3>1 DEF Replace
      <4> HIDE DEF w
      <4> QED
        BY <2>5, <4>1, <4>2
    <3>2. ASSUME NEW x, Edit(q, x)
          PROVE  var'[q].cert = var[q].cert /\ (p # q => var'[p] = var[p])
      <4> DEFINE w == [var[q] EXCEPT !.index = raft + 1, !.secret = x]
      <4>1. w.cert = var[q].cert
        BY <2>4
      <4>2. OperatorWrites(q, w)
        BY <3>2 DEF Edit
      <4> HIDE DEF w
      <4> QED
        BY <2>5, <4>1, <4>2
    <3>3. CASE Damage(q)
      BY <2>4, <2>5, <3>3 DEF Damage
    <3>4. CASE Remove(q)
      BY <2>5, <3>4 DEF Remove, Absent
    <3> QED
      BY <2>2, <3>1, <3>2, <3>3, <3>4
  <2> QED
    BY <2>6
<1>3. ~UNCHANGED var
  OBVIOUS
<1>4. PICK h \in Host : Moves(h)
  BY <1>2, <1>3, NextCases DEF vars, nomadVars, Deploy, Tick
<1>5. pass[h].pc = "put" /\ Write(h)
  BY <1>3, <1>4, MoveFacts
<1> DEFINE q == pass[h].path
           w == Merged(var[q], pass[h].cert)
<1>6. /\ q \in Place /\ var' = [var EXCEPT ![q] = w]
      /\ ~StoredUsable(var[q], pass[h].cert.domain)
  BY <1>5, WriteFacts
<1>7. w.cert = pass[h].cert
  BY <1>1, <1>6 DEF Merged, Variable
<1> HIDE DEF w
<1>8. p = q /\ var'[p].cert = pass[h].cert
  BY <1>1, <1>6, <1>7
<1> QED
  BY <1>6, <1>8 DEF StoredUsable, Servable, Fresh

(***************************************************************************)
(* A certificate that can still be served is left alone by every host.     *)
(***************************************************************************)
THEOREM GoodCertificatesKept == Spec => NoNeedlessWrite
<1> USE DEF NoNeedlessWrite
<1>1. IInv /\ [Next]_vars =>
        [\A p \in Place :
            LET c == var'[p].cert
            IN  c \notin {None, var[p].cert} => ~Servable(var[p], c.domain)]_vars
  BY WritesWhenDue
<1> QED
  BY <1>1, Inductive, PTL DEF Spec
=============================================================================
