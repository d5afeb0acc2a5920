-------------------------------- MODULE Tags --------------------------------
(***************************************************************************)
(* The tags of a Nomad service (tags.go): what parseTags makes of a list   *)
(* of tags.                                                                *)
(*                                                                         *)
(* A tag prefix.key=value is a record; a tag with another prefix or with   *)
(* no value has the key "foreign".  What a value parses to is given: Atoi  *)
(* and Duration are functions whose domains are the values that parse.     *)
(* Warnings are left out.                                                  *)
(***************************************************************************)
EXTENDS Integers, Sequences, SequencesExt, FiniteSets, TLC

CONSTANTS
    Atoi,        \* strconv.Atoi, on the values that are numbers
    Duration,    \* time.ParseDuration, on the values that are durations
    Unprefixed,  \* the name of a value svc:name, on the values of that form
    Rooted,      \* the values that start with a slash
    Defaults     \* defaultProxyConfig

Proto == {"http", "https", "tcp", "tls-terminated-tcp"}
Scope == {"node", "datacenter", "global"}
Timeout == {"read-header-timeout", "idle-timeout", "backend-dial-timeout",
            "backend-response-header-timeout",
            "backend-idle-connection-timeout", "expect-continue-timeout"}
Setting == Timeout \cup {"max-connections"}

ASSUME DefaultsAssumption == Defaults \in [Setting -> Nat]

Tag(k, v) == [key |-> k, value |-> v]

OptedIn(tags) == \E i \in DOMAIN tags : tags[i] = Tag("enable", "true")

\* What a setting's value parses to; an error is a negative number.
Parsed(t) ==
    LET parse == IF t.key = "max-connections" THEN Atoi ELSE Duration
    IN  IF t.value \in DOMAIN parse THEN parse[t.value] ELSE -1

ValidPort(v) == v \in DOMAIN Atoi /\ Atoi[v] \in 1..65535

ServiceName(v) == IF v \in DOMAIN Unprefixed THEN Unprefixed[v] ELSE v

\* As if an invalid scope fell back to the default.
ReadScopeAfresh(scope, v) == IF v \in Scope THEN v ELSE "datacenter"
ReadScope(scope, v) == IF v \in Scope THEN v ELSE scope

\* As if the endpoints were keyed by protocol and not by port.
AddPortPerProto(ports, p, proto) ==
    IF \E q \in DOMAIN ports : ports[q] = proto THEN ports
    ELSE ports @@ (p :> proto)

AddPort(ports, p, proto) ==
    [q \in DOMAIN ports \cup {p} |->
        IF q \in DOMAIN ports THEN ports[q] ELSE proto]

(***************************************************************************)
(* One turn of the loop over the tags, for a service called nomad.  The    *)
(* last valid tag wins, but the first one for a port; an empty service tag *)
(* brings the default name back.                                           *)
(***************************************************************************)
Read(nomad, acc, t) ==
    CASE t.key = "service" ->
           [acc EXCEPT !.name = IF ServiceName(t.value) = "" THEN nomad
                                ELSE ServiceName(t.value)]
      [] t.key = "scope" -> [acc EXCEPT !.scope = ReadScope(@, t.value)]
      [] t.key = "publish-cert" /\ t.value \in {"true", "false"} ->
           [acc EXCEPT !.cert = (t.value = "true")]
      [] t.key = "path" /\ t.value \in Rooted ->
           [acc EXCEPT !.path = t.value]
      [] t.key \in Setting /\ Parsed(t) >= 0 ->
           [acc EXCEPT !.proxy[t.key] = Parsed(t)]
      [] t.key \in Proto /\ ValidPort(t.value) ->
           [acc EXCEPT !.ports = AddPort(@, Atoi[t.value], t.key)]
      [] OTHER -> acc

Unread(nomad) ==
    [name |-> nomad, scope |-> "datacenter", cert |-> FALSE, path |-> "",
     proxy |-> Defaults, ports |-> <<>>]

\* Only web endpoints have a path; without a port tag there is https=443.
Endpoints(acc) ==
    LET ports == IF acc.ports = <<>> THEN 443 :> "https" ELSE acc.ports
    IN  {[proto |-> ports[p], port |-> p, proxy |-> acc.proxy,
          path |-> IF ports[p] \in {"http", "https"} THEN acc.path ELSE ""] :
         p \in DOMAIN ports}

\* The serviceSpec of a service that opted in.
ParseTags(nomad, tags) ==
    LET read(acc, t) == Read(nomad, acc, t)
        acc == FoldLeft(read, Unread(nomad), tags)
    IN  [service |-> acc.name, scope |-> acc.scope, cert |-> acc.cert,
         endpoints |-> Endpoints(acc)]
=============================================================================
