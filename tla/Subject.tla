------------------------------- MODULE Subject -------------------------------
(***************************************************************************)
(* coffee::basis::pattern::observer: subjects and their observers, whose   *)
(* update may attach and detach while notify walks the map.  The map goes  *)
(* by the names of the observers, and an iterator is good until its        *)
(* element is erased or the map is rehashed.                               *)
(***************************************************************************)
EXTENDS FiniteSets, Naturals

CONSTANTS
    Subjects, Observers, NameOf,
    MaxNotify, MaxReentry   \* bounds: calls of notify, and of attach and detach by an update

Nobody == "nobody"
Erased == "erased"         \* the element that the iterator is at

VARIABLES
    alive,        \* the subjects that have not been destroyed
    observers,    \* m_observers of each
    subscribed,   \* the observers with m_isSubscribed
    walking,      \* the subject whose notify is under way, or none
    current,      \* the observer its iterator is at, whose update is running
    updated,      \* those that the walk has passed
    since,        \* history: those attached since the walk began, without a break
    notifies, reentered,
    invalid       \* an iterator was used that is no good

subjectVars == <<alive, observers, subscribed, walking, current, updated, since,
                 notifies, reentered, invalid>>

SubjectInit ==
    /\ alive = Subjects /\ observers = [s \in Subjects |-> {}] /\ subscribed = {}
    /\ walking = {} /\ current = Nobody /\ updated = {} /\ since = {}
    /\ notifies = 0 /\ reentered = 0 /\ invalid = FALSE

Named(s, o) == {x \in observers[s] : NameOf[x] = NameOf[o]}

(* attach and detach are called between the walks, or by an update. *)
IsCalled ==
    IF walking = {} THEN UNCHANGED reentered
    ELSE current # Nobody /\ reentered < MaxReentry /\ reentered' = reentered + 1

(* A new element may rehash the map under the walk. *)
Attach(s, o) ==
    /\ s \in alive /\ IsCalled
    /\ IF Named(s, o) # {} \/ o \in subscribed        \* returns, or throws
       THEN UNCHANGED <<observers, subscribed, invalid>>
       ELSE /\ observers' = [observers EXCEPT ![s] = @ \cup {o}]
            /\ subscribed' = subscribed \cup {o}
            /\ IF s \in walking THEN invalid' \in BOOLEAN ELSE UNCHANGED invalid
    /\ UNCHANGED <<alive, walking, current, updated, since, notifies>>

FlagsLeft(gone) == subscribed                                      \* mutant
Unsubscribed(gone) == subscribed \ gone
Detach(s, o) ==                    \* detach(o->getName())
    /\ s \in alive /\ IsCalled
    /\ observers' = [observers EXCEPT ![s] = @ \ Named(s, o)]
    /\ subscribed' = Unsubscribed(Named(s, o))
    /\ IF s \in walking
       THEN /\ since' = since \ Named(s, o)
            /\ current' = IF current \in Named(s, o) THEN Erased ELSE current
       ELSE UNCHANGED <<since, current>>
    /\ UNCHANGED <<alive, walking, updated, notifies, invalid>>

Destroy(s) ==                      \* ~Subject
    /\ s \in alive /\ walking = {}
    /\ alive' = alive \ {s}
    /\ observers' = [observers EXCEPT ![s] = {}]
    /\ subscribed' = Unsubscribed(observers[s])
    /\ UNCHANGED <<walking, current, updated, since, notifies, reentered, invalid>>

-----------------------------------------------------------------------------
Notify(s) ==
    /\ s \in alive /\ walking = {} /\ notifies < MaxNotify
    /\ walking' = {s} /\ current' = Nobody /\ updated' = {} /\ since' = observers[s]
    /\ notifies' = notifies + 1
    /\ UNCHANGED <<alive, observers, subscribed, reentered, invalid>>

(* The order of the map is any: one that is added comes before or after the *)
(* iterator.                                                                *)
Update(s, o) ==
    /\ s \in walking /\ current = Nobody /\ o \in observers[s] \ updated
    /\ current' = o
    /\ UNCHANGED <<alive, observers, subscribed, walking, updated, since, notifies, reentered, invalid>>

UpdateReturns(s) ==                \* ++ ii
    /\ s \in walking /\ current # Nobody
    /\ updated' = updated \cup {current} /\ current' = Nobody
    /\ invalid' = (current = Erased)
    /\ UNCHANGED <<alive, observers, subscribed, walking, since, notifies, reentered>>

NotifyReturns(s) ==
    /\ s \in walking /\ current = Nobody /\ since \subseteq updated
    /\ walking' = {}
    /\ UNCHANGED <<alive, observers, subscribed, current, updated, since, notifies, reentered, invalid>>

SubjectNext ==
    /\ ~invalid                   \* the model stops at undefined behaviour
    /\ \E s \in Subjects :
          \/ Destroy(s) \/ Notify(s) \/ UpdateReturns(s) \/ NotifyReturns(s)
          \/ \E o \in Observers : Attach(s, o) \/ Detach(s, o) \/ Update(s, o)

SubjectSpec == SubjectInit /\ [][SubjectNext]_subjectVars
-----------------------------------------------------------------------------
(* Whatever is attached, detached or destroyed, in whatever order, an       *)
(* observer says that it is subscribed exactly while one subject has it,    *)
(* and no subject has two of one name.                                      *)
SubscribedOnce ==
    /\ \A o \in Observers :
          Cardinality({s \in Subjects : o \in observers[s]}) = IF o \in subscribed THEN 1 ELSE 0
    /\ \A s \in Subjects, o \in Observers : Cardinality(Named(s, o)) <= 1

(* notify uses no iterator that an update has made invalid. *)
IteratorsOfNotify == ~invalid

(* attach: subscribe the observer to change on this subject. *)
AttachSubscribes ==
    [][\A s \in Subjects, o \in Observers : Attach(s, o) /\ o \notin subscribed => o \in observers'[s]]_subjectVars
=============================================================================
