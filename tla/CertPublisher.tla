---------------------------- MODULE CertPublisher ----------------------------
(***************************************************************************)
(* The certificate publishers (cert.go) of the connectors that host a job  *)
(* and the Nomad variables they share with each other and with the job's   *)
(* operator, who keeps items of his own in them.                           *)
(*                                                                         *)
(* The allocations of the hosts run versions of one job.  A version is a   *)
(* set of declarations of services, each in a place: the task group or one *)
(* of its tasks.  The place is the path of a variable.  A certificate is   *)
(* the record of what it is issued for, by whom and until when; a          *)
(* tailscale_* item is the certificate it was made from.                   *)
(*                                                                         *)
(* secret is a history variable: no action reads it.                       *)
(***************************************************************************)
EXTENDS Integers

CONSTANTS
    Host,         \* connectors, with one allocation of the job each
    Service,      \* Nomad services of the job
    Domain,       \* MagicDNS names of Tailscale Services
    DomainOf,     \* the one a Nomad service is published as
    Place,        \* the task group and its tasks
    Jobs,         \* the versions of the job
    Secret,       \* what the operator keeps in a variable
    None,         \* no certificate, secret, service or place
    Unissued,     \* services no certificate is ever issued for
    Lifetime,     \* of a certificate
    MinValidity,  \* -cert-renew-before
    MaxTime,      \* bound: time
    MaxUpsets     \* bound: edits, deployments, failures and crashes

Declaration ==
    [place : Place, service : Service, literal : BOOLEAN,
     tags : {"none", "literal", "interpolated"}]

ASSUME JobsAssumption == Jobs \subseteq SUBSET Declaration
ASSUME DomainOfAssumption == DomainOf \in [Service -> Domain]
ASSUME UnissuedAssumption == Unissued \subseteq Service
ASSUME TimesAssumption ==
    /\ Lifetime \in Nat /\ MinValidity \in Nat /\ MinValidity < Lifetime
    /\ MaxTime \in Nat /\ MaxUpsets \in Nat

Cert == [domain : Domain, host : Host, notAfter : 1..(MaxTime + Lifetime)]

ASSUME NoneAssumption ==
    None \notin Service \cup Place \cup Domain \cup Secret \cup Cert

VARIABLES
    now,     \* the time
    upsets,  \* edits, deployments, failures and crashes so far
    alloc,   \* the version the allocation of a host runs
    var,     \* Nomad's variables
    raft,    \* Nomad's index
    held,    \* the certificates tsnet keeps on a host's disk
    pass,    \* the pass of a connector
    status,  \* certPublisher.status of a connector
    secret   \* history: what the operator last put in a variable

nomadVars == <<alloc, var, raft, secret>>
vars == <<now, upsets, nomadVars, held, pass, status>>

\* A host without an allocation: nothing is declared.
Stopped == {}

\* A variable that does not exist.
Absent ==
    [index |-> 0, secret |-> None, domain |-> None, cert |-> None,
     key |-> None, notAfter |-> None]

Idle ==
    [pc |-> "idle", wanted |-> {}, todo |-> {}, service |-> None,
     path |-> None, cert |-> None, found |-> Absent]

Fresh(c) == c.notAfter > now + MinValidity

-----------------------------------------------------------------------------
(* attributeService.                                                       *)

\* The services of a version whose registrations ask for a certificate.
Asking(job) == {d.service : d \in {e \in job : e.tags # "none"}}

\* By name; a name with ${...} is stored as it is written, so then by tag.
Named(job, s) == {d \in job : d.literal /\ d.service = s}
Tagged(job) == {d \in job : d.tags = "literal"}
Candidates(job, s) == IF Named(job, s) # {} THEN Named(job, s) ELSE Tagged(job)

\* As if the first match were good enough.
AttributedToAny(job, s, p) == \E d \in Candidates(job, s) : d.place = p

Attributed(job, s, p) == \E d \in Candidates(job, s) :
    Candidates(job, s) = {d} /\ d.place = p

Attributable(job, s) == \E p \in Place : Attributed(job, s, p)

-----------------------------------------------------------------------------
(* One connector.                                                          *)

connectorFrame == <<now, alloc, secret>>

\* An operation fails, an answer is lost or somebody edits something.
Upset == upsets < MaxUpsets /\ upsets' = upsets + 1

At(h, where) == pass[h].pc = where

\* publish goes on with the next certificate, whatever became of this one.
Report(h, state) ==
    /\ status' = [status EXCEPT ![h] = [@ EXCEPT ![pass[h].service] = state]]
    /\ pass' = [pass EXCEPT ![h] = [Idle EXCEPT !.pc = "next",
                                                !.wanted = pass[h].wanted,
                                                !.todo = pass[h].todo]]

\* The pass captures what the registrations ask for.
StartPublish(h) ==
    /\ At(h, "idle")
    /\ pass' = [pass EXCEPT ![h] = [Idle EXCEPT !.pc = "next",
                                                !.wanted = Asking(alloc[h]),
                                                !.todo = Asking(alloc[h])]]
    /\ UNCHANGED <<connectorFrame, upsets, var, raft, held, status>>

(***************************************************************************)
(* publishOne takes the next certificate.  The version is read anew: the   *)
(* allocation may have been updated since the registrations were.          *)
(***************************************************************************)
Take(h, s) ==
    /\ At(h, "next")
    /\ s \in pass[h].todo
    /\ UNCHANGED <<connectorFrame, var, raft, held>>

Rest(h, s) == pass[h].todo \ {s}

Attribute(h, s) ==
    /\ Take(h, s)
    /\ \E p \in Place :
          /\ Attributed(alloc[h], s, p)
          /\ pass' = [pass EXCEPT ![h] = [@ EXCEPT !.pc = "obtain",
                                !.service = s, !.path = p, !.todo = Rest(h, s)]]
    /\ UNCHANGED <<upsets, status>>

SkipOne(h, s) ==
    /\ Take(h, s)
    /\ pass' = [pass EXCEPT ![h] = [@ EXCEPT !.todo = Rest(h, s)]]
    /\ status' = [status EXCEPT ![h] = [@ EXCEPT ![s] = "failed"]]

Unattributed(h, s) ==
    /\ ~Attributable(alloc[h], s)
    /\ SkipOne(h, s)
    /\ UNCHANGED upsets

\* The tailnet's name or the allocation is not to be had.
Unread(h, s) ==
    /\ SkipOne(h, s)
    /\ Upset

Issued(h, d) == [domain |-> d, host |-> h, notAfter |-> now + Lifetime]

\* CertPair: tsnet hands out the one it keeps while that is fresh.
Obtain(h) ==
    LET d == DomainOf[pass[h].service]
        c == IF held[h][d] # None /\ Fresh(held[h][d])
             THEN held[h][d] ELSE Issued(h, d)
    IN  /\ At(h, "obtain")
        /\ pass[h].service \notin Unissued
        /\ held' = [held EXCEPT ![h] = [@ EXCEPT ![d] = c]]
        /\ pass' = [pass EXCEPT ![h] = [@ EXCEPT !.pc = "read", !.cert = c]]
        /\ UNCHANGED <<connectorFrame, upsets, var, raft, status>>

NotIssued(h) ==
    /\ At(h, "obtain")
    /\ pass[h].service \in Unissued
    /\ Report(h, "failed")
    /\ UNCHANGED <<connectorFrame, upsets, var, raft, held>>

\* itemsContain: the variable holds the very certificate in hand.
Contains(v, c) ==
    v.domain = c.domain /\ v.cert = c /\ v.key = c /\ v.notAfter = c

\* As if a matching name were proof enough of a pair that can be served.
TrustDomain(v, d) == v.domain = d /\ v.cert # None /\ Fresh(v.cert)

\* storedUsable: the pair in the variable fits, covers d and is not yet due.
StoredUsable(v, d) ==
    /\ v.domain = d
    /\ v.cert # None /\ v.key = v.cert
    /\ v.cert.domain = d
    /\ Fresh(v.cert)

\* As if only the certificate in hand counted.
UpToDateOwn(v, c) == Contains(v, c)

UpToDate(v, c) == Contains(v, c) \/ StoredUsable(v, c.domain)

Read(h) ==
    LET v == var[pass[h].path]
    IN  /\ At(h, "read")
        /\ IF UpToDate(v, pass[h].cert)
           THEN Report(h, "current")
           ELSE /\ pass' = [pass EXCEPT ![h] = [@ EXCEPT !.pc = "put",
                                                         !.found = v]]
                /\ UNCHANGED status
        /\ UNCHANGED <<connectorFrame, upsets, var, raft, held>>

\* The tailscale_* items are the connector's, the rest is carried over.
Merged(v, c) ==
    [v EXCEPT !.index = raft + 1, !.domain = c.domain, !.cert = c, !.key = c,
              !.notAfter = c]

\* As if the write were not a check-and-set.
UnchangedSince(p, v) == TRUE
Unmodified(p, v) == var[p].index = v.index

Write(h) ==
    /\ Unmodified(pass[h].path, pass[h].found)
    /\ var' = [var EXCEPT ![pass[h].path] =
                  Merged(pass[h].found, pass[h].cert)]
    /\ raft' = raft + 1

Put(h) ==
    /\ At(h, "put")
    /\ Write(h)
    /\ Report(h, "published")
    /\ UNCHANGED <<connectorFrame, upsets, held>>

Conflict(h) ==
    /\ At(h, "put")
    /\ ~Unmodified(pass[h].path, pass[h].found)
    /\ Report(h, "failed")
    /\ UNCHANGED <<connectorFrame, upsets, var, raft, held>>

\* Nomad wrote the variable and the answer was lost.
PutUnanswered(h) ==
    /\ At(h, "put")
    /\ Write(h)
    /\ Report(h, "failed")
    /\ Upset
    /\ UNCHANGED <<connectorFrame, held>>

\* The certificate is not to be had, or the variable.
Fails(h) ==
    /\ pass[h].pc \in {"obtain", "read", "put"}
    /\ Report(h, "failed")
    /\ Upset
    /\ UNCHANGED <<connectorFrame, var, raft, held>>

\* What is no longer asked for is no longer reported.
EndPublish(h) ==
    /\ At(h, "next")
    /\ pass[h].todo = {}
    /\ pass' = [pass EXCEPT ![h] = Idle]
    /\ status' = [status EXCEPT ![h] =
                     [s \in Service |-> IF s \in pass[h].wanted
                                        THEN status[h][s] ELSE None]]
    /\ UNCHANGED <<connectorFrame, upsets, var, raft, held>>

\* The connector restarts; what tsnet keeps is on disk.
Crash(h) ==
    /\ pass' = [pass EXCEPT ![h] = Idle]
    /\ status' = [status EXCEPT ![h] = [s \in Service |-> None]]
    /\ Upset
    /\ UNCHANGED <<connectorFrame, var, raft, held>>

-----------------------------------------------------------------------------
(* Everybody else.                                                         *)

Tick ==
    /\ now < MaxTime
    /\ now' = now + 1
    /\ UNCHANGED <<upsets, nomadVars, held, pass, status>>

Deploy(h, job) ==
    /\ job # alloc[h]
    /\ alloc' = [alloc EXCEPT ![h] = job]
    /\ Upset
    /\ UNCHANGED <<now, var, raft, secret, held, pass, status>>

OperatorWrites(p, v) ==
    /\ var' = [var EXCEPT ![p] = v]
    /\ secret' = [secret EXCEPT ![p] = v.secret]
    /\ raft' = raft + 1
    /\ Upset
    /\ UNCHANGED <<now, alloc, held, pass, status>>

\* He writes his own items only.
Replace(p, x) ==
    OperatorWrites(p, [Absent EXCEPT !.index = raft + 1, !.secret = x])

\* He edits his own, or damages one of the connector's.
Edit(p, x) ==
    /\ var[p].index # 0 /\ var[p].secret # x
    /\ OperatorWrites(p, [var[p] EXCEPT !.index = raft + 1, !.secret = x])

Damage(p) ==
    /\ var[p].index # 0
    /\ \/ OperatorWrites(p, [var[p] EXCEPT !.index = raft + 1, !.cert = None])
       \/ OperatorWrites(p, [var[p] EXCEPT !.index = raft + 1, !.key = None])
       \/ OperatorWrites(p, [var[p] EXCEPT !.index = raft + 1, !.domain = None])

Remove(p) == var[p].index # 0 /\ OperatorWrites(p, Absent)

Operator == \E p \in Place :
    \/ \E x \in Secret \cup {None} : Replace(p, x) \/ Edit(p, x)
    \/ Damage(p)
    \/ Remove(p)

-----------------------------------------------------------------------------
Init ==
    /\ now = 0 /\ upsets = 0
    /\ \E job \in Jobs : alloc = [h \in Host |-> job]
    /\ var = [p \in Place |-> Absent] /\ raft = 0
    /\ secret = [p \in Place |-> None]
    /\ held = [h \in Host |-> [d \in Domain |-> None]]
    /\ pass = [h \in Host |-> Idle]
    /\ status = [h \in Host |-> [s \in Service |-> None]]

\* What a connector does of itself.
Works(h) ==
    \/ StartPublish(h)
    \/ \E s \in Service : Attribute(h, s) \/ Unattributed(h, s)
    \/ Obtain(h) \/ NotIssued(h)
    \/ Read(h)
    \/ Put(h) \/ Conflict(h)
    \/ EndPublish(h)

Next ==
    \/ \E h \in Host :
          \/ Works(h)
          \/ \E s \in Service : Unread(h, s)
          \/ PutUnanswered(h) \/ Fails(h) \/ Crash(h)
          \/ \E job \in Jobs \cup {Stopped} : Deploy(h, job)
    \/ Operator
    \/ Tick

Spec == Init /\ [][Next]_vars

(***************************************************************************)
(* The certificate timer fires again and again, and a request ends, well   *)
(* or badly: it has a deadline, or the tailnet gives it up.                *)
(***************************************************************************)
FairSpec == Spec /\ \A h \in Host : WF_vars(Works(h))
-----------------------------------------------------------------------------
(* Properties.                                                             *)

Variable ==
    [index : Nat, secret : Secret \cup {None}, domain : Domain \cup {None},
     cert : Cert \cup {None}, key : Cert \cup {None},
     notAfter : Cert \cup {None}]

Publication ==
    [pc : {"idle", "next", "obtain", "read", "put"},
     wanted : SUBSET Service, todo : SUBSET Service,
     service : Service \cup {None}, path : Place \cup {None},
     cert : Cert \cup {None}, found : Variable]

\* The variables of Nomad, the disks and the passes.
TypeOK ==
    /\ now \in 0..MaxTime /\ upsets \in 0..MaxUpsets
    /\ alloc \in [Host -> Jobs \cup {Stopped}]
    /\ var \in [Place -> Variable] /\ raft \in Nat
    /\ secret \in [Place -> Secret \cup {None}]
    /\ held \in [Host -> [Domain -> Cert \cup {None}]]
    /\ pass \in [Host -> Publication]
    /\ status \in [Host -> [Service ->
          {"published", "current", "failed", None}]]

(***************************************************************************)
(* The variable holds what the operator last put in it, whoever wrote it   *)
(* since: "the operator's own items in that variable are carried over as   *)
(* they are" (cert.go:371), with his edits, those of another connector and *)
(* lost answers between the read of publishOne and its write.              *)
(***************************************************************************)
SecretsKept == \A p \in Place : var[p].secret = secret[p]

(***************************************************************************)
(* Why: what was read and still has its index is what the variable holds,  *)
(* and a pass that is about to write read a pair that is not to be kept.   *)
(***************************************************************************)
HeldForDomain ==
    \A h \in Host : \A d \in Domain :
        held[h][d] # None => held[h][d].domain = d

AtWork(h) ==
    /\ pass[h].pc \in {"obtain", "read", "put"} =>
          pass[h].service \in Service /\ pass[h].path \in Place
    /\ pass[h].pc \in {"read", "put"} =>
          /\ pass[h].cert # None
          /\ pass[h].cert.domain = DomainOf[pass[h].service]

Indexed(v) == v.index =< raft /\ (v.index = 0 => v = Absent)

Drafted(h) ==
    pass[h].pc = "put" =>
        LET v == pass[h].found
        IN  /\ Indexed(v)
            /\ Unmodified(pass[h].path, v) => var[pass[h].path] = v
            /\ ~StoredUsable(v, pass[h].cert.domain)

\* All of it together is inductive.
IInv ==
    /\ TypeOK /\ SecretsKept /\ HeldForDomain
    /\ \A p \in Place : Indexed(var[p])
    /\ \A h \in Host : AtWork(h) /\ Drafted(h)

\* A backend could serve the pair for d for MinValidity at least.
Servable(v, d) ==
    /\ v.domain = d /\ v.cert # None /\ v.key = v.cert
    /\ v.cert.domain = d /\ v.cert.notAfter > now + MinValidity

(***************************************************************************)
(* A certificate that is still good is never replaced by another for the   *)
(* same name: "leave it alone rather than having hosts overwrite each      *)
(* other" (cert.go:440).  A connector's write puts a new pair in place.    *)
(***************************************************************************)
NoNeedlessWrite ==
    [][\A p \in Place :
          LET c == var'[p].cert
          IN  c \notin {None, var[p].cert} => ~Servable(var[p], c.domain)]_vars

(***************************************************************************)
(* A certificate is made for a place that declares the service in the      *)
(* version the allocation runs at that moment: "publishing to a guessed    *)
(* path would hand one task's certificate to another" (cert.go:150).       *)
(***************************************************************************)
AttributedRight ==
    [][\A h \in Host : pass[h].pc = "next" /\ pass'[h].pc = "obtain" =>
          \E d \in alloc[h] : /\ d.service = pass'[h].service
                              /\ d.place = pass'[h].path]_vars

(***************************************************************************)
(* Once nobody interferes, every service that asks for a certificate has a *)
(* good pair where it is declared, and is reported as current; one that    *)
(* cannot have it is reported as failed, one that does not ask not at all, *)
(* and neither disturbs the others: "A failure for one certificate never   *)
(* affects another" (cert.go:301).                                         *)
(***************************************************************************)
Served(h, s) ==
    IF s \in Unissued \/ ~Attributable(alloc[h], s)
    THEN status[h][s] = "failed"
    ELSE /\ status[h][s] = "current"
         /\ \E p \in Place : /\ Attributed(alloc[h], s, p)
                             /\ Servable(var[p], DomainOf[s])

Settled ==
    <>[](\A h \in Host : \A s \in Service :
            IF s \in Asking(alloc[h]) THEN Served(h, s) ELSE status[h][s] = None)
=============================================================================
