---------------------------- MODULE TagResolution ----------------------------
(***************************************************************************)
(* attachTags: an attempt resolves every tag of the machine class to the   *)
(* ID of a vCenter tag, in order, and then attaches them, in order.  A     *)
(* failed attempt is retried from the start, while administrators create   *)
(* and delete tags.  Plain names are looked up in a listing an attempt     *)
(* fetches once; names with a category are asked for one by one.           *)
(*                                                                         *)
(* A tag entry is the sequence of its parts between slashes, so that       *)
(* <<"env">> is a plain name and <<"team", "a", "b">> may be the tag "a/b" *)
(* of category "team".                                                     *)
(***************************************************************************)
EXTENDS Naturals, Sequences, FiniteSets

CONSTANTS
  Parts,       \* parts of names, without slashes
  Empty,       \* the empty string
  Categories,  \* names of tag categories
  Names,       \* names of tags: sequences of parts
  Entries,     \* tag entries of a class: sequences of parts
  MaxTags,     \* bound: entries of a class
  MaxIDs,      \* bound: tags of one name created in a category, one after the other
  MaxChanges,  \* bound: tags created and deleted
  MaxFaults    \* bound: attempts cut short

\* A tag: deleted and created again it has another ID.
Tags == [category : Categories, name : Names, id : 1..MaxIDs]

ASSUME NamesAssumption ==
  /\ Empty \notin Parts
  /\ Categories \subseteq Parts
  /\ Names \subseteq Seq(Parts) \ {<< >>}
  /\ Entries \subseteq Seq(Parts \union {Empty}) \ {<< >>}
ASSUME BoundsAssumption ==
  MaxTags \in Nat /\ MaxIDs \in Nat /\ MaxChanges \in Nat /\ MaxFaults \in Nat

VARIABLES
  specs,     \* the tags of the class
  exists,    \* the tags of vCenter
  ever,      \* the tags it has ever had
  attached,  \* the tags the VM has
  pc,        \* where the attempt is
  ids,       \* the tags resolved so far
  fetched,   \* the listing has been fetched
  listing,   \* the listing
  next,      \* the position in ids of the tag to attach
  changes,   \* tags created and deleted so far
  faults     \* attempts cut short so far

vcenter == <<exists, ever, attached, changes>>
attempt == <<pc, ids, fetched, listing, next>>
vars == <<specs, vcenter, attempt, faults>>

\* Type correctness; an attempt never has more IDs than entries.
TypeOK ==
  /\ specs \in Seq(Entries)
  /\ exists \subseteq ever /\ ever \subseteq Tags /\ attached \subseteq exists
  /\ pc \in {"idle", "resolve", "attach", "done"}
  /\ ids \in Seq(Tags) /\ Len(ids) <= Len(specs)
  /\ fetched \in BOOLEAN
  /\ listing \subseteq ever
  /\ next \in 1..(Len(specs) + 1)
  /\ changes \in 0..MaxChanges
  /\ faults \in 0..MaxFaults

Init ==
  /\ specs \in UNION {[1..n -> Entries] : n \in 0..MaxTags}
  /\ exists \in SUBSET {t \in Tags : t.id = 1}
  /\ ever = exists
  /\ attached = {}
  /\ pc = "idle"
  /\ ids = << >>
  /\ fetched = FALSE
  /\ listing = {}
  /\ next = 1
  /\ changes = 0
  /\ faults = 0
-----------------------------------------------------------------------------

\* The first slash separates the category from the name.
splitTagSpec(spec) ==
  IF Len(spec) > 1
  THEN [category |-> Head(spec), name |-> Tail(spec)]
  ELSE [category |-> Empty, name |-> spec]

\* The entry to resolve.
Current == splitTagSpec(specs[Len(ids) + 1])
Resolving == pc = "resolve" /\ Len(ids) < Len(specs) /\ Current.name # <<Empty>>

matchTagsByName(tags, name) == {t \in tags : t.name = name}

\* Faulty variant of Begin: the listing of an earlier attempt is kept.
BeginWithListing ==
  /\ pc = "idle"
  /\ pc' = "resolve"
  /\ ids' = << >>
  /\ next' = 1
  /\ UNCHANGED <<specs, vcenter, fetched, listing, faults>>

Begin ==
  /\ pc = "idle"
  /\ pc' = "resolve"
  /\ ids' = << >>
  /\ fetched' = FALSE
  /\ next' = 1
  /\ UNCHANGED <<specs, vcenter, listing, faults>>

\* Faulty variant of ResolveInCategory: the category is not asked for.
ResolveByName ==
  /\ Resolving
  /\ Current.category # Empty
  /\ \E t \in matchTagsByName(exists, Current.name) : ids' = Append(ids, t)
  /\ UNCHANGED <<specs, vcenter, pc, fetched, listing, next, faults>>

\* GetCategory and GetTagForCategory.
ResolveInCategory ==
  /\ Resolving
  /\ Current.category # Empty
  /\ \E t \in exists :
       /\ t.category = Current.category /\ t.name = Current.name
       /\ ids' = Append(ids, t)
  /\ UNCHANGED <<specs, vcenter, pc, fetched, listing, next, faults>>

\* GetTags, once in an attempt and only when a plain name asks for it.
FetchTags ==
  /\ Resolving
  /\ Current.category = Empty
  /\ ~fetched
  /\ fetched' = TRUE
  /\ listing' = exists
  /\ UNCHANGED <<specs, vcenter, pc, ids, next, faults>>

\* Faulty variant of ResolvePlain: the first match is taken.
ResolveAny ==
  /\ Resolving
  /\ Current.category = Empty
  /\ fetched
  /\ \E t \in matchTagsByName(listing, Current.name) : ids' = Append(ids, t)
  /\ UNCHANGED <<specs, vcenter, pc, fetched, listing, next, faults>>

\* A plain name that no tag has, or tags of several categories, is an error.
ResolvePlain ==
  /\ Resolving
  /\ Current.category = Empty
  /\ fetched
  /\ \E t \in listing :
       /\ matchTagsByName(listing, Current.name) = {t}
       /\ ids' = Append(ids, t)
  /\ UNCHANGED <<specs, vcenter, pc, fetched, listing, next, faults>>

\* Faulty variant of Resolved: tags are attached as far as they were resolved.
ResolvedSome ==
  /\ pc = "resolve"
  /\ ids # << >>
  /\ pc' = "attach"
  /\ UNCHANGED <<specs, vcenter, ids, fetched, listing, next, faults>>

Resolved ==
  /\ pc = "resolve"
  /\ Len(ids) = Len(specs)
  /\ pc' = "attach"
  /\ UNCHANGED <<specs, vcenter, ids, fetched, listing, next, faults>>

\* Attaching a tag the VM has changes nothing.
AttachTag ==
  /\ pc = "attach"
  /\ next <= Len(ids)
  /\ ids[next] \in exists
  /\ attached' = attached \union {ids[next]}
  /\ next' = next + 1
  /\ UNCHANGED <<specs, exists, ever, changes, pc, ids, fetched, listing, faults>>

Attached ==
  /\ pc = "attach"
  /\ next = Len(ids) + 1
  /\ pc' = "done"
  /\ UNCHANGED <<specs, vcenter, ids, fetched, listing, next, faults>>

\* An entry that cannot be resolved, or a tag deleted before it was attached.
Fails ==
  \/ /\ pc = "resolve"
     /\ Len(ids) < Len(specs)
     /\ \/ Current.name = <<Empty>>
        \/ /\ Current.category # Empty
           /\ ~\E t \in exists : t.category = Current.category /\ t.name = Current.name
        \/ /\ Current.category = Empty /\ fetched
           /\ Cardinality(matchTagsByName(listing, Current.name)) # 1
  \/ pc = "attach" /\ next <= Len(ids) /\ ids[next] \notin exists

\* Faulty variant of Retry: the error is not one the runner retries.
Abort ==
  /\ Fails
  /\ pc' = "failed"
  /\ UNCHANGED <<specs, vcenter, ids, fetched, listing, next, faults>>

Retry ==
  /\ Fails
  /\ pc' = "idle"
  /\ UNCHANGED <<specs, vcenter, ids, fetched, listing, next, faults>>

\* Faulty variant of CutShort: an error of an attach is logged, and the next tag
\* attached.
SkipTag ==
  /\ faults < MaxFaults
  /\ faults' = faults + 1
  /\ pc = "attach" /\ next <= Len(ids)
  /\ next' = next + 1
  /\ UNCHANGED <<specs, vcenter, pc, ids, fetched, listing>>

\* A call fails, or the Automation API session cannot be had.
CutShort ==
  /\ faults < MaxFaults
  /\ faults' = faults + 1
  /\ pc \in {"resolve", "attach"}
  /\ pc' = "idle"
  /\ UNCHANGED <<specs, vcenter, ids, fetched, listing, next>>

\* A name is taken once in a category.
CreateTag ==
  /\ changes < MaxChanges
  /\ changes' = changes + 1
  /\ \E t \in Tags \ ever :
       /\ \A u \in exists : u.category = t.category => u.name # t.name
       /\ exists' = exists \union {t}
       /\ ever' = ever \union {t}
  /\ UNCHANGED <<specs, attached, attempt, faults>>

\* A tag that is deleted is detached from everything.
DeleteTag ==
  /\ changes < MaxChanges
  /\ changes' = changes + 1
  /\ \E t \in exists : exists' = exists \ {t} /\ attached' = attached \ {t}
  /\ UNCHANGED <<specs, ever, attempt, faults>>

Attempt ==
  \/ Begin \/ ResolveInCategory \/ FetchTags \/ ResolvePlain \/ Resolved
  \/ AttachTag \/ Attached \/ Retry

Finished == pc = "done" /\ UNCHANGED vars

Next == Attempt \/ CutShort \/ CreateTag \/ DeleteTag \/ Finished

Spec == Init /\ [][Next]_vars

\* The runner retries, and no call hangs.
FairSpec == Spec /\ WF_vars(Attempt)
-----------------------------------------------------------------------------

\* The entries that mean a tag: its category and name, or its name alone when it
\* has no slash, with or without a slash before it.
Means(spec, t) ==
  \/ spec = <<t.category>> \o t.name
  \/ Len(t.name) = 1 /\ spec = t.name
  \/ spec = <<Empty>> \o t.name

Plain(spec) == Len(spec) = 1 \/ Head(spec) = Empty

Matches(spec) == {t \in exists : Means(spec, t)}

\* A retry or a change of tags never leaves a tag on the VM that no entry of the
\* class means.
OnlyAsked == \A t \in attached : \E i \in DOMAIN specs : Means(specs[i], t)

\* When the step is done each entry was resolved to a tag it means, and that tag
\* is on the VM unless it was deleted since.
EachAttached ==
  pc = "done" => \A i \in DOMAIN specs :
    /\ Len(ids) = Len(specs)
    /\ Means(specs[i], ids[i])
    /\ ids[i] \in attached \/ ids[i] \notin exists

\* One entry that means no tag, or is a plain name of several, keeps every tag
\* of the class off the VM.
AllOrNone ==
  changes = 0 /\ attached # {} => \A i \in DOMAIN specs : Cardinality(Matches(specs[i])) = 1

\* A plain name is resolved only to the one tag the attempt's listing has of it.
Unambiguous ==
  \A i \in DOMAIN ids :
    Plain(specs[i]) => {t \in listing : Means(specs[i], t)} = {ids[i]}

\* Once each entry means one tag, and for good, the tags get attached.
EventuallyAttached ==
  <>[](\A i \in DOMAIN specs : Cardinality(Matches(specs[i])) = 1) => <>(pc = "done")
=============================================================================
