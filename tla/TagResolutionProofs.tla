------------------------ MODULE TagResolutionProofs ------------------------
(***************************************************************************)
(* Proofs about TagResolution, for any categories, names, entries, changes *)
(* of tags and cut attempts.                                               *)
(***************************************************************************)
EXTENDS TagResolution, SequenceTheorems, FiniteSetTheorems, TLAPS

Letters == Parts \union {Empty}

-----------------------------------------------------------------------------
(***************************************************************************)
(* The entries.                                                            *)
(***************************************************************************)

\* A sequence is a first part put before the rest exactly when these are its
\* head and tail.
LEMMA FirstAndRest ==
  ASSUME NEW W, NEW spec \in Seq(W), spec # << >>, NEW x \in W, NEW s \in Seq(W)
  PROVE  spec = <<x>> \o s <=> Head(spec) = x /\ Tail(spec) = s
<1>1. /\ Len(spec) \in Nat /\ Len(spec) # 0 /\ Head(spec) = spec[1] /\ Tail(spec) \in Seq(W)
      /\ Len(Tail(spec)) = Len(spec) - 1
      /\ \A i \in 1..Len(Tail(spec)) : Tail(spec)[i] = spec[i + 1]
  BY EmptySeq, HeadTailProperties
<1>2. /\ <<x>> \in Seq(W) /\ Len(<<x>>) = 1 /\ <<x>>[1] = x
      /\ <<x>> \o s \in Seq(W) /\ Len(<<x>> \o s) = 1 + Len(s) /\ Len(s) \in Nat
      /\ \A i \in 1..1 + Len(s) : (<<x>> \o s)[i] = IF i <= 1 THEN <<x>>[i] ELSE s[i - 1]
  <2>1. <<x>> \in Seq(W) /\ Len(<<x>>) = 1 /\ <<x>>[1] = x
    OBVIOUS
  <2> QED
    BY <2>1, ConcatProperties, LenProperties
<1>3. ASSUME spec = <<x>> \o s
      PROVE  Head(spec) = x /\ Tail(spec) = s
  <2>1. Head(spec) = x
    BY <1>1, <1>2, <1>3
  <2>2. Len(Tail(spec)) = Len(s)
    BY <1>1, <1>2, <1>3
  <2>3. \A i \in 1..Len(s) : Tail(spec)[i] = s[i]
    BY <1>1, <1>2, <1>3
  <2> QED
    BY <1>1, <2>1, <2>2, <2>3, SeqEqual
<1>4. ASSUME Head(spec) = x, Tail(spec) = s
      PROVE  spec = <<x>> \o s
  <2>1. Len(spec) = Len(<<x>> \o s)
    <3>1. Len(s) = Len(spec) - 1 /\ Len(<<x>> \o s) = 1 + Len(s) /\ Len(s) \in Nat
      BY <1>1, <1>2, <1>4
    <3>2. Len(spec) \in Nat
      BY <1>1
    <3> QED
      BY <3>1, <3>2
  <2>2. \A i \in 1..Len(spec) : spec[i] = (<<x>> \o s)[i]
    <3> SUFFICES ASSUME NEW i \in 1..Len(spec) PROVE spec[i] = (<<x>> \o s)[i]
      OBVIOUS
    <3>1. CASE i = 1
      BY <3>1, <1>1, <1>2, <1>4
    <3>2. CASE i # 1
      <4>1. i - 1 \in 1..Len(Tail(spec)) /\ (i - 1) + 1 = i
        BY <3>2, <1>1
      <4>2. spec[i] = s[i - 1]
        BY <4>1, <1>1, <1>4
      <4> QED
        BY <4>2, <3>2, <1>1, <1>2, <2>1
    <3> QED
      BY <3>1, <3>2
  <2> QED
    BY <1>2, <2>1, <2>2, SeqEqual
<1> QED
  BY <1>3, <1>4

\* splitTagSpec reads every entry for what it means: a tag is meant exactly when
\* it has the name, and the category if there is one; a plain entry has none.
THEOREM SplitMeans ==
  ASSUME NEW spec \in Entries
  PROVE  /\ Plain(spec) <=> splitTagSpec(spec).category = Empty
         /\ \A t \in Tags :
              Means(spec, t) <=>
                /\ t.name = splitTagSpec(spec).name
                /\ Plain(spec) \/ t.category = splitTagSpec(spec).category
<1>1. spec \in Seq(Letters) /\ spec # << >> /\ Len(spec) \in Nat /\ Len(spec) # 0
  BY NamesAssumption, EmptySeq DEF Letters
<1>n. \A n \in Nat : n # 0 => (n > 1 <=> n # 1) /\ (n > 1 <=> n - 1 # 0)
  OBVIOUS
<1>g. Len(spec) > 1 <=> Len(spec) # 1
  BY <1>1, <1>n
<1>2. ASSUME NEW t \in Tags
      PROVE  /\ t.name \in Seq(Letters) /\ Len(t.name) \in Nat /\ Len(t.name) # 0
             /\ t.category \in Letters /\ t.category # Empty
  <2>1. t.name \in Seq(Parts) /\ t.name # << >> /\ t.category \in Parts
    BY NamesAssumption DEF Tags
  <2>2. t.name \in Seq(Letters)
    BY <2>1, SeqMonotonic DEF Letters
  <2> QED
    BY <2>1, <2>2, EmptySeq, NamesAssumption DEF Letters
<1>3. ASSUME NEW t \in Tags, NEW x \in Letters
      PROVE  /\ spec = <<x>> \o t.name <=> Head(spec) = x /\ Tail(spec) = t.name
             /\ spec = <<x>> \o t.name => Len(spec) > 1
  <2>1. spec = <<x>> \o t.name <=> Head(spec) = x /\ Tail(spec) = t.name
    BY <1>1, <1>2, FirstAndRest
  <2>2. Len(Tail(spec)) = Len(spec) - 1
    BY <1>1, HeadTailProperties
  <2>3. Tail(spec) = t.name => Len(spec) > 1
    <3>1. Len(t.name) # 0
      BY <1>2
    <3>2. Len(spec) > 1 <=> Len(spec) - 1 # 0
      BY <1>1, <1>n
    <3> QED
      BY <2>2, <3>1, <3>2
  <2> QED
    BY <2>1, <2>3
<1>4. CASE Len(spec) > 1
  <2>1. splitTagSpec(spec).category = Head(spec) /\ splitTagSpec(spec).name = Tail(spec)
    BY <1>4 DEF splitTagSpec
  <2>2. Plain(spec) <=> Head(spec) = Empty
    BY <1>4, <1>g DEF Plain
  <2>3. ASSUME NEW t \in Tags
        PROVE  Means(spec, t) <=>
                 Tail(spec) = t.name /\ (Head(spec) = Empty \/ Head(spec) = t.category)
    <3>1. ~(Len(t.name) = 1 /\ spec = t.name)
      BY <1>4, <1>g
    <3>2. t.category \in Letters /\ Empty \in Letters
      BY <1>2 DEF Letters
    <3> QED
      BY <3>1, <3>2, <1>3 DEF Means
  <2> QED
    BY <2>1, <2>2, <2>3
<1>5. CASE ~(Len(spec) > 1)
  <2>1. splitTagSpec(spec).category = Empty /\ splitTagSpec(spec).name = spec /\ Len(spec) = 1
    <3>1. Len(spec) = 1
      BY <1>5, <1>g
    <3> QED
      BY <1>5, <3>1 DEF splitTagSpec
  <2>2. ASSUME NEW t \in Tags
        PROVE  Means(spec, t) <=> t.name = spec
    <3>1. t.category \in Letters /\ Empty \in Letters
      BY <1>2 DEF Letters
    <3> QED
      BY <2>1, <3>1, <1>3, <1>5 DEF Means
  <2> QED
    BY <2>1, <2>2 DEF Plain
<1> QED
  BY <1>4, <1>5

-----------------------------------------------------------------------------
(***************************************************************************)
(* The invariant.                                                          *)
(***************************************************************************)

\* vCenter has no two tags of one name in a category; the listing is one it had,
\* and as long as nothing changes the one it has.
TagsInv ==
  /\ \A t, u \in exists : t.category = u.category /\ t.name = u.name => t = u
  /\ changes = 0 /\ fetched => listing = exists

\* What has been resolved is what the entries mean; while nothing changes,
\* nothing else is.
ResolvedInv ==
  \A i \in DOMAIN ids :
    /\ Means(specs[i], ids[i])
    /\ ids[i] \in ever
    /\ changes = 0 => Matches(specs[i]) = {ids[i]}
    /\ Plain(specs[i]) => fetched /\ {t \in listing : Means(specs[i], t)} = {ids[i]}

\* Tags are attached when all are resolved, and in order.
AttachInv ==
  /\ pc \in {"attach", "done"} =>
       /\ Len(ids) = Len(specs)
       /\ \A i \in DOMAIN ids : i < next => ids[i] \in attached \/ ids[i] \notin exists
  /\ pc = "done" => next = Len(ids) + 1
  /\ pc = "resolve" => next = 1

IInv == TypeOK /\ TagsInv /\ ResolvedInv /\ AttachInv /\ OnlyAsked /\ AllOrNone

\* The initial states satisfy the invariant.
LEMMA InitInv == Init => IInv
<1> SUFFICES ASSUME Init PROVE IInv
  OBVIOUS
<1>1. specs \in Seq(Entries)
  BY BoundsAssumption DEF Init
<1>2. Len(specs) \in Nat
  BY <1>1, LenProperties
<1>3. ids \in Seq(Tags) /\ Len(ids) = 0 /\ DOMAIN ids = {}
  BY EmptySeq, LenProperties DEF Init
<1>4. TypeOK
  <2>1. 1 \in 1..(Len(specs) + 1) /\ 0 <= Len(specs)
    BY <1>2
  <2>2. 0 \in 0..MaxChanges /\ 0 \in 0..MaxFaults
    BY BoundsAssumption
  <2> QED
    BY <1>1, <1>3, <2>1, <2>2 DEF Init, TypeOK
<1>5. \A t, u \in exists : t.category = u.category /\ t.name = u.name => t = u
  <2> SUFFICES ASSUME NEW t \in exists, NEW u \in exists,
                      t.category = u.category, t.name = u.name
               PROVE  t = u
    OBVIOUS
  <2>1. t \in Tags /\ u \in Tags /\ t.id = u.id
    BY DEF Init
  <2> QED
    BY <2>1 DEF Tags
<1>6. TagsInv /\ ResolvedInv /\ AttachInv /\ OnlyAsked /\ AllOrNone
  BY <1>3, <1>5 DEF Init, TagsInv, ResolvedInv, AttachInv, OnlyAsked, AllOrNone
<1> QED
  BY <1>4, <1>6 DEF IInv

\* The entries and IDs of an attempt, by position.
LEMMA Positions ==
  ASSUME TypeOK
  PROVE  /\ Len(ids) \in Nat /\ Len(specs) \in Nat
         /\ DOMAIN ids = 1..Len(ids) /\ DOMAIN specs = 1..Len(specs)
         /\ \A i \in DOMAIN specs : specs[i] \in Entries
         /\ \A i \in DOMAIN ids : ids[i] \in Tags /\ i \in DOMAIN specs
<1>1. /\ Len(ids) \in Nat /\ Len(specs) \in Nat
      /\ DOMAIN ids = 1..Len(ids) /\ DOMAIN specs = 1..Len(specs)
  BY LenProperties DEF TypeOK
<1>2. Len(ids) <= Len(specs)
  BY DEF TypeOK
<1>3. \A i \in DOMAIN specs : specs[i] \in Entries
  BY <1>1, ElementOfSeq DEF TypeOK
<1>4. \A i \in DOMAIN ids : ids[i] \in Tags /\ i \in DOMAIN specs
  BY <1>1, <1>2, ElementOfSeq DEF TypeOK
<1> QED
  BY <1>1, <1>3, <1>4

\* One more entry is resolved, to the one tag it means.
LEMMA AppendInv ==
  ASSUME IInv, Resolving, NEW t \in Tags, t \in ever,
         ids' = Append(ids, t),
         Means(specs[Len(ids) + 1], t),
         changes = 0 => Matches(specs[Len(ids) + 1]) = {t},
         Plain(specs[Len(ids) + 1]) =>
           fetched /\ {u \in listing : Means(specs[Len(ids) + 1], u)} = {t},
         UNCHANGED <<specs, vcenter, pc, fetched, listing, next, faults>>
  PROVE  IInv'
<1> USE DEF vcenter
<1>1. /\ Append(ids, t) \in Seq(Tags) /\ Len(Append(ids, t)) = Len(ids) + 1
      /\ \A i \in 1..Len(ids) : Append(ids, t)[i] = ids[i]
      /\ Append(ids, t)[Len(ids) + 1] = t
  BY AppendProperties DEF IInv, TypeOK
<1>2. /\ DOMAIN ids' = 1..(Len(ids) + 1) /\ Len(ids) \in Nat /\ DOMAIN ids = 1..Len(ids)
      /\ Len(specs) \in Nat
  BY <1>1, LenProperties, Positions DEF IInv
<1>3. TypeOK'
  BY <1>1, <1>2 DEF IInv, TypeOK, Resolving
<1>4. ASSUME NEW i \in DOMAIN ids'
      PROVE  ids'[i] = IF i = Len(ids) + 1 THEN t ELSE ids[i]
  <2>1. i \in 1..Len(ids) \/ i = Len(ids) + 1
    BY <1>2
  <2> QED
    BY <1>1, <1>2, <2>1
<1>5. ResolvedInv'
  <2> SUFFICES ASSUME NEW i \in DOMAIN ids'
               PROVE  /\ Means(specs[i], ids'[i])
                      /\ ids'[i] \in ever
                      /\ changes = 0 => Matches(specs[i]) = {ids'[i]}
                      /\ Plain(specs[i]) =>
                           fetched /\ {u \in listing : Means(specs[i], u)} = {ids'[i]}
    BY DEF ResolvedInv, Matches, Means, Plain
  <2>1. CASE i = Len(ids) + 1
    BY <1>4, <2>1
  <2>2. CASE i # Len(ids) + 1
    <3>1. i \in DOMAIN ids
      BY <1>2, <2>2
    <3>2. ids'[i] = ids[i]
      BY <1>4, <2>2
    <3> QED
      BY <3>1, <3>2 DEF IInv, ResolvedInv
  <2> QED
    BY <2>1, <2>2
<1>6. TagsInv' /\ AttachInv' /\ OnlyAsked' /\ AllOrNone'
  BY DEF IInv, TagsInv, AttachInv, OnlyAsked, AllOrNone, Resolving, Matches, Means
<1> QED
  BY <1>3, <1>5, <1>6 DEF IInv

\* Each step of an attempt preserves the invariant.
LEMMA AttemptInv ==
  ASSUME IInv, Attempt
  PROVE  IInv'
<1> USE DEF vcenter
<1> DEFINE spec == specs[Len(ids) + 1]
<1>t. TypeOK
  BY DEF IInv
<1>p. /\ Len(ids) \in Nat /\ Len(specs) \in Nat
      /\ DOMAIN ids = 1..Len(ids) /\ DOMAIN specs = 1..Len(specs)
  BY <1>t, Positions
<1>s. Resolving => spec \in Entries
  BY <1>p, <1>t, Positions DEF Resolving
<1>1. CASE Begin
  <2>1. << >> \in Seq(Tags) /\ Len(<< >>) = 0 /\ DOMAIN << >> = {}
    BY EmptySeq
  <2>2. TypeOK'
    <3>1. 1 \in 1..(Len(specs) + 1) /\ 0 <= Len(specs)
      BY <1>p
    <3> QED
      BY <1>1, <1>t, <2>1, <3>1 DEF Begin, TypeOK
  <2>3. ResolvedInv'
    BY <1>1, <2>1 DEF Begin, ResolvedInv
  <2>4. TagsInv' /\ AttachInv' /\ OnlyAsked' /\ AllOrNone'
    BY <1>1 DEF Begin, IInv, TagsInv, AttachInv, OnlyAsked, AllOrNone, Matches, Means
  <2> QED
    BY <2>2, <2>3, <2>4 DEF IInv
<1>2. CASE ResolveInCategory
  <2>1. PICK t \in exists : /\ t.category = Current.category /\ t.name = Current.name
                            /\ ids' = Append(ids, t)
    BY <1>2 DEF ResolveInCategory
  <2>2. t \in Tags /\ t \in ever /\ Resolving /\ Current.category # Empty
    BY <1>2, <1>t DEF ResolveInCategory, TypeOK
  <2>3. /\ ~Plain(spec)
        /\ \A u \in Tags :
             Means(spec, u) <=> u.name = Current.name /\ u.category = Current.category
    BY <1>s, <2>2, SplitMeans DEF Current
  <2>4. Matches(spec) = {t}
    <3>1. \A u \in exists : Means(spec, u) => u = t
      BY <2>1, <2>2, <2>3, <1>t DEF IInv, TagsInv, TypeOK
    <3> QED
      BY <3>1, <2>1, <2>2, <2>3 DEF Matches
  <2> QED
    BY <1>2, <2>1, <2>2, <2>3, <2>4, AppendInv DEF ResolveInCategory
<1>3. CASE FetchTags
  <2>1. TypeOK' /\ TagsInv'
    BY <1>3 DEF FetchTags, IInv, TypeOK, TagsInv
  <2>2. ResolvedInv'
    BY <1>3 DEF FetchTags, IInv, ResolvedInv, Matches, Means, Plain
  <2>3. AttachInv' /\ OnlyAsked' /\ AllOrNone'
    BY <1>3 DEF FetchTags, IInv, AttachInv, OnlyAsked, AllOrNone, Matches, Means, Resolving
  <2> QED
    BY <2>1, <2>2, <2>3 DEF IInv
<1>4. CASE ResolvePlain
  <2>1. PICK t \in listing : /\ matchTagsByName(listing, Current.name) = {t}
                             /\ ids' = Append(ids, t)
    BY <1>4 DEF ResolvePlain
  <2>2. t \in Tags /\ Resolving /\ Current.category = Empty /\ fetched
    BY <1>4, <1>t DEF ResolvePlain, TypeOK
  <2>3. /\ Plain(spec)
        /\ \A u \in Tags : Means(spec, u) <=> u.name = Current.name
    BY <1>s, <2>2, SplitMeans DEF Current
  <2>4. {u \in listing : Means(spec, u)} = {t} /\ Means(spec, t)
    BY <2>1, <2>2, <2>3, <1>t DEF matchTagsByName, TypeOK
  <2>5. changes = 0 => Matches(spec) = {t}
    BY <2>2, <2>4 DEF IInv, TagsInv, Matches
  <2>6. t \in ever
    BY <2>1, <1>t DEF TypeOK
  <2> QED
    BY <1>4, <2>1, <2>2, <2>3, <2>4, <2>5, <2>6, AppendInv DEF ResolvePlain
<1>5. CASE Resolved
  <2>1. \A i \in DOMAIN ids : ~(i < next)
    BY <1>5, <1>p DEF Resolved, IInv, AttachInv
  <2>2. AttachInv'
    BY <1>5, <2>1 DEF Resolved, AttachInv
  <2>3. TypeOK' /\ TagsInv' /\ ResolvedInv' /\ OnlyAsked' /\ AllOrNone'
    BY <1>5 DEF Resolved, IInv, TypeOK, TagsInv, ResolvedInv, OnlyAsked, AllOrNone,
                Matches, Means, Plain
  <2> QED
    BY <2>2, <2>3 DEF IInv
<1>6. CASE AttachTag
  <2>1. next \in DOMAIN ids /\ next \in DOMAIN specs /\ Len(ids) = Len(specs)
    BY <1>6, <1>t, <1>p DEF AttachTag, IInv, TypeOK, AttachInv
  <2>2. TypeOK'
    BY <1>6, <1>t, <1>p, <2>1 DEF AttachTag, TypeOK
  <2>3. TagsInv' /\ ResolvedInv'
    BY <1>6 DEF AttachTag, IInv, TagsInv, ResolvedInv, Matches, Means, Plain
  <2>4. AttachInv'
    BY <1>6, <1>t, <1>p, <2>1 DEF AttachTag, IInv, TypeOK, AttachInv
  <2>5. OnlyAsked'
    BY <1>6, <2>1 DEF AttachTag, IInv, OnlyAsked, ResolvedInv, Means
  <2>6. AllOrNone'
    <3>1. changes = 0 => \A i \in DOMAIN specs : Matches(specs[i]) = {ids[i]}
      BY <2>1, <1>p DEF IInv, ResolvedInv
    <3>2. changes = 0 => \A i \in DOMAIN specs : Cardinality(Matches(specs[i])) = 1
      BY <3>1, FS_Singleton
    <3> QED
      BY <1>6, <3>2 DEF AttachTag, AllOrNone, Matches, Means
  <2> QED
    BY <2>2, <2>3, <2>4, <2>5, <2>6 DEF IInv
<1>7. CASE Attached
  BY <1>7 DEF Attached, IInv, TypeOK, TagsInv, ResolvedInv, AttachInv, OnlyAsked, AllOrNone,
              Matches, Means, Plain
<1>8. CASE Retry
  BY <1>8 DEF Retry, IInv, TypeOK, TagsInv, ResolvedInv, AttachInv, OnlyAsked, AllOrNone,
              Matches, Means, Plain
<1> QED
  BY <1>1, <1>2, <1>3, <1>4, <1>5, <1>6, <1>7, <1>8 DEF Attempt

\* Every step preserves the invariant.
LEMMA StepInv ==
  ASSUME IInv, [Next]_vars
  PROVE  IInv'
<1> USE DEF vcenter, attempt
<1>1. CASE Attempt
  BY <1>1, AttemptInv
<1>2. CASE CutShort
  <2>1. faults' \in 0..MaxFaults
    BY <1>2, BoundsAssumption DEF CutShort, IInv, TypeOK
  <2> QED
    BY <1>2, <2>1 DEF CutShort, IInv, TypeOK, TagsInv, ResolvedInv, AttachInv, OnlyAsked,
                      AllOrNone, Matches, Means, Plain
<1>c. CreateTag \/ DeleteTag => changes' # 0 /\ changes' \in 0..MaxChanges
  BY BoundsAssumption DEF CreateTag, DeleteTag, IInv, TypeOK
<1>3. CASE CreateTag
  <2>1. PICK t \in Tags \ ever :
          /\ \A u \in exists : u.category = t.category => u.name # t.name
          /\ exists' = exists \union {t} /\ ever' = ever \union {t}
    BY <1>3 DEF CreateTag
  <2>2. TypeOK'
    BY <1>3, <1>c, <2>1 DEF CreateTag, IInv, TypeOK
  <2>3. TagsInv' /\ ResolvedInv' /\ OnlyAsked' /\ AllOrNone'
    BY <1>3, <1>c, <2>1
       DEF CreateTag, IInv, TagsInv, ResolvedInv, OnlyAsked, AllOrNone, Means, Plain
  <2>4. AttachInv'
    BY <1>3, <2>1 DEF CreateTag, IInv, ResolvedInv, AttachInv
  <2> QED
    BY <2>2, <2>3, <2>4 DEF IInv
<1>4. CASE DeleteTag
  <2>1. PICK t \in exists : exists' = exists \ {t} /\ attached' = attached \ {t}
    BY <1>4 DEF DeleteTag
  <2>2. TypeOK'
    BY <1>4, <1>c, <2>1 DEF DeleteTag, IInv, TypeOK
  <2>3. TagsInv' /\ ResolvedInv' /\ OnlyAsked' /\ AllOrNone'
    BY <1>4, <1>c, <2>1
       DEF DeleteTag, IInv, TagsInv, ResolvedInv, OnlyAsked, AllOrNone, Means, Plain
  <2>4. AttachInv'
    BY <1>4, <2>1 DEF DeleteTag, IInv, AttachInv
  <2> QED
    BY <2>2, <2>3, <2>4 DEF IInv
<1>5. CASE UNCHANGED vars
  <2>1. TypeOK' /\ TagsInv' /\ ResolvedInv'
    BY <1>5 DEF vars, IInv, TypeOK, TagsInv, ResolvedInv, Matches, Means, Plain
  <2>2. AttachInv' /\ OnlyAsked' /\ AllOrNone'
    BY <1>5 DEF vars, IInv, AttachInv, OnlyAsked, AllOrNone, Matches, Means
  <2> QED
    BY <2>1, <2>2 DEF IInv
<1> QED
  BY <1>1, <1>2, <1>3, <1>4, <1>5 DEF Next, Finished

-----------------------------------------------------------------------------

\* The inductive invariant, in every behaviour.
THEOREM Invariance == Spec => []IInv
BY InitInv, StepInv, PTL DEF Spec

\* Type correctness, in every behaviour.
THEOREM TypeCorrect == Spec => []TypeOK
<1>1. IInv => TypeOK
  BY DEF IInv
<1> QED
  BY <1>1, Invariance, PTL

\* No tag is on the VM that no entry of the class means.
THEOREM NothingElse == Spec => []OnlyAsked
<1>1. IInv => OnlyAsked
  BY DEF IInv
<1> QED
  BY <1>1, Invariance, PTL

\* When the step is done, what each entry means is on the VM, unless deleted.
THEOREM AllAttached == Spec => []EachAttached
<1>1. IInv => EachAttached
  <2> SUFFICES ASSUME IInv, pc = "done", NEW i \in DOMAIN specs
               PROVE  /\ Len(ids) = Len(specs) /\ Means(specs[i], ids[i])
                      /\ ids[i] \in attached \/ ids[i] \notin exists
    BY DEF EachAttached
  <2>1. Len(ids) = Len(specs) /\ next = Len(ids) + 1
    BY DEF IInv, AttachInv
  <2>2. i \in DOMAIN ids /\ i < next
    BY <2>1, Positions DEF IInv
  <2> QED
    BY <2>1, <2>2 DEF IInv, AttachInv, ResolvedInv
<1> QED
  BY <1>1, Invariance, PTL

\* As long as the tags of vCenter do not change, an entry that means no tag or
\* several keeps every tag off the VM.
THEOREM Atomic == Spec => []AllOrNone
<1>1. IInv => AllOrNone
  BY DEF IInv
<1> QED
  BY <1>1, Invariance, PTL

\* A plain name is resolved only to the one tag the listing has of it.
THEOREM NotGuessed == Spec => []Unambiguous
<1>1. IInv => Unambiguous
  BY DEF IInv, ResolvedInv, Unambiguous
<1> QED
  BY <1>1, Invariance, PTL
=============================================================================
