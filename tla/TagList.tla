------------------------------ MODULE TagList -------------------------------
(***************************************************************************)
(* The tags of one service as the author of its job writes them, one more  *)
(* tag at a time: every list of at most MaxTags of them.                   *)
(***************************************************************************)
EXTENDS Tags

CONSTANTS
    TagSet,   \* the tags to choose from
    MaxTags   \* bound: tags of a service

VARIABLE tags

Write(t) == Len(tags) < MaxTags /\ tags' = Append(tags, t)

TagInit == tags = <<>>

TagNext == \E t \in TagSet : Write(t)

TagSpec == TagInit /\ [][TagNext]_tags

-----------------------------------------------------------------------------
(* Properties.                                                             *)

\* The tag is one of the tag reference, with a value it allows.
Valid(t) ==
    \/ t.key = "service"
    \/ t.key = "scope" /\ t.value \in Scope
    \/ t.key = "publish-cert" /\ t.value \in {"true", "false"}
    \/ t.key = "path" /\ t.value \in Rooted
    \/ t.key \in Setting /\ Parsed(t) >= 0
    \/ t.key \in Proto /\ ValidPort(t.value)

\* The two tags decide the same thing: one of them must give way.
Conflict(t, u) ==
    /\ Valid(t) /\ Valid(u)
    /\ \/ t.key = u.key /\ t.key \notin Proto
       \/ /\ {t.key, u.key} \subseteq Proto
          /\ Atoi[t.value] = Atoi[u.value]

Swapped(i) ==
    [tags EXCEPT ![i] = tags[i + 1], ![i + 1] = tags[i]]

(***************************************************************************)
(* Tags that decide different things may be written in any order: nothing  *)
(* a listener is keyed by changes, so no endpoint is drained, when a job   *)
(* only reorders its tags.                                                 *)
(***************************************************************************)
OrderFree ==
    \A i \in 1..(Len(tags) - 1) :
        ~Conflict(tags[i], tags[i + 1]) =>
            ParseTags("nomad", Swapped(i)) = ParseTags("nomad", tags)

(***************************************************************************)
(* A tag that is ignored with a warning changes nothing, whatever stands   *)
(* before or after it ("Problems that don't prevent publication are        *)
(* returned as warnings", tags.go:83; README.md:254): without it, the list *)
(* is read the same.                                                       *)
(***************************************************************************)
InvalidIgnored ==
    \A i \in DOMAIN tags :
        ~Valid(tags[i]) =>
            ParseTags("nomad", RemoveAt(tags, i)) = ParseTags("nomad", tags)
=============================================================================
