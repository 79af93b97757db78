-------------------------------- MODULE Tasks --------------------------------
(***************************************************************************)
(* Tasks ask volunteers to find a contact detail that a person lacks.  The *)
(* signals of every save make the missing tasks of the person and delete   *)
(* the ones that are no longer wanted; on a page of the admin a volunteer  *)
(* works on a task, or defers it for some days.                            *)
(*                                                                         *)
(* Each request is one transaction (ATOMIC_REQUESTS) that reads committed  *)
(* rows, and nothing is locked until it is written: a request is two       *)
(* steps, what it reads and what it commits.  Only requests that save or   *)
(* delete the same person wait for each other, on the person's row.        *)
(***************************************************************************)
EXTENDS People, Naturals, FiniteSets, SequencesExt

CONSTANTS
    Kind,           \* kinds of contact that every person should have
    Editor,         \* requests of staff that may be served at a time
    Volunteer,      \* requests to the tasks page that may be served at a time
    MaxTasks,       \* bound: rows ever made
    MaxEdits,       \* bound: committed edits
    MaxViews        \* bound: requests to the tasks page

ASSUME TasksAssumption ==
    /\ IsFiniteSet(Person) /\ IsFiniteSet(Kind)
    /\ None \notin Kind /\ Cardinality(Person \X Kind) \in 1..MaxTasks
    /\ MaxTasks \in Nat /\ MaxEdits \in Nat /\ MaxViews \in Nat

VARIABLES
    contacts,       \* the kinds of contact each has
    tasks,          \* ids of the Task rows
    about,          \* the person and the kind a task is for
    due,            \* its defer_until: over, in minutes or in days
    attempts,       \* its attempt_count, and the entries in its log
    last,           \* the last id given
    request,        \* what each editor's request has read and will commit
    page,           \* the task each volunteer's request has loaded
    posts,          \* history: committed deferrals of a task
    stale,          \* history: tasks saved from a copy older than another save
    unsettled,      \* history: people whose tasks need another save
    edits, views

table   == <<tasks, about, due, attempts, last>>
history == <<posts, stale>>
served  == <<edits, views>>
tasksVars == <<people, contacts, table, request, page, history, unsettled, served>>

Task == 1..MaxTasks
Nobody == <<None, None>>  \* of a task that is not made yet
Due  == {"now", "soon", "later"}
Free == [op |-> "none"]
NoPage == [method |-> "none"]

Request == [op : {"contact", "person", "remove", "delete"}, person : Person,
            kind : Kind \cup {None}, made : SUBSET Kind, dropped : SUBSET Task, alone : BOOLEAN]
Page    == [method : {"GET", "POST"}, task : Task, due : Due, attempts : Nat, alone : BOOLEAN]

TasksTypeOK ==
    /\ people \subseteq Person /\ contacts \in [Person -> SUBSET Kind]
    /\ last \in 0..MaxTasks /\ tasks \subseteq 1..last
    /\ about \in [Task -> (Person \X Kind) \cup {Nobody}] /\ due \in [Task -> Due]
    /\ attempts \in [Task -> 0..MaxViews] /\ posts \in [Task -> 0..MaxViews]
    /\ \A e \in Editor : request[e] \in Request \cup {Free}
    /\ \A v \in Volunteer : page[v] \in Page \cup {NoPage}
    /\ stale \subseteq Task /\ unsettled \subseteq Person /\ edits \in 0..MaxEdits /\ views \in 0..MaxViews

Rows(p, k) == {t \in tasks : about[t] = <<p, k>>}

(* Everybody has been saved since the last change.                         *)
TasksInit ==
    /\ people = Person /\ contacts \in [Person -> SUBSET Kind]
    /\ LET missing == SetToSeq({pk \in Person \X Kind : pk[2] \notin contacts[pk[1]]}) IN
       /\ last = Len(missing) /\ tasks = 1..Len(missing)
       /\ about = [t \in Task |-> IF t \in DOMAIN missing THEN missing[t] ELSE Nobody]
    /\ due = [t \in Task |-> "now"]
    /\ attempts = [t \in Task |-> 0] /\ posts = [t \in Task |-> 0]
    /\ request = [e \in Editor |-> Free] /\ page = [v \in Volunteer |-> NoPage]
    /\ stale = {} /\ unsettled = {} /\ edits = 0 /\ views = 0

-----------------------------------------------------------------------------
(* Requests of staff.                                                      *)

Wanted(have) == Kind \ have

(* get() finds two rows: the exception rolls the request back.             *)
Multiple(p, have) == \E k \in Wanted(have) : Cardinality(Rows(p, k)) > 1

Made(p, have) == {k \in Wanted(have) : Rows(p, k) = {}}

(* Mutant: redundant tasks are not deleted.                                *)
Dropped_Nothing(p, have) == {}

Dropped(p, have) == UNION {Rows(p, k) : k \in Kind \ Wanted(have)}

Added(k) == {k} \ {None}

(* Saving or deleting a person waits for the other such request.           *)
Locked(p) == \E e \in Editor : request[e].op \in {"person", "delete"} /\ request[e].person = p

Start(e, op, p, k, made, dropped) ==
    /\ request[e] = Free /\ p \in people /\ edits < MaxEdits
    /\ request' = [request EXCEPT ![e] =
         [op |-> op, person |-> p, kind |-> k, made |-> made, dropped |-> dropped, alone |-> TRUE]]
    /\ edits' = edits + 1
    /\ UNCHANGED <<people, contacts, table, page, history, unsettled, views>>

(* A contact is added on a page of its own: Contact.generate_tasks calls   *)
(* that of the person, and the contact is already there.                   *)
SaveContact(e, p, k) ==
    LET have == contacts[p] \cup {k} IN
    /\ ~ Multiple(p, have)
    /\ Start(e, "contact", p, k, Made(p, have), Dropped(p, have))

(* The page of the person: the person is saved first, then perhaps a new   *)
(* contact in the same request.                                            *)
SavePerson(e, p, k) ==
    LET have == contacts[p] \cup Added(k) IN
    /\ ~ Locked(p)
    /\ ~ Multiple(p, contacts[p]) /\ ~ Multiple(p, have)
    /\ Start(e, "person", p, k, Made(p, have), Dropped(p, have))

(* post_delete only deletes the tasks of the contact itself, which has     *)
(* none: those of the person stay as they are.                             *)
RemoveContact(e, p, k) ==
    /\ k \in contacts[p]
    /\ Start(e, "remove", p, k, {}, {})

DeletePerson(e, p) ==
    /\ ~ Locked(p)
    /\ Start(e, "delete", p, None, {}, Dropped(p, Kind))

(* What else is being done to the person is no longer up to date.          *)
Overtake(p, without) ==
    [e \in Editor |->
        IF e = without THEN Free
        ELSE IF request[e] # Free /\ request[e].person = p
               THEN [request[e] EXCEPT !.alone = FALSE] ELSE request[e]]

Commit(e) ==
    LET r     == request[e]
        given == SetToSeq(r.made)
        Given(t) == t \in last + 1 .. last + Len(given)
    IN
    /\ r # Free
    /\ last + Len(given) <= MaxTasks
    /\ people' = IF r.op = "delete" THEN people \ {r.person} ELSE people
    /\ contacts' = [contacts EXCEPT ![r.person] =
         CASE r.op = "delete" -> {}
           [] r.op = "remove" -> @ \ {r.kind}
           [] OTHER           -> @ \cup Added(r.kind)]
    /\ last' = last + Len(given)
    /\ tasks' = (tasks \ r.dropped) \cup (last + 1 .. last')
    /\ about' = [t \in Task |-> IF Given(t) THEN <<r.person, given[t - last]>> ELSE about[t]]
    /\ request' = Overtake(r.person, e)
    /\ unsettled' = IF r.alone /\ r.op # "remove" THEN unsettled \ {r.person}
                                                  ELSE unsettled \cup {r.person}
    /\ UNCHANGED <<due, attempts, page, history, served>>

-----------------------------------------------------------------------------
(* The page do/<task>/.                                                    *)

Open(v, t, method) ==
    /\ page[v] = NoPage /\ t \in tasks
    /\ views < MaxViews /\ views' = views + 1
    /\ page' = [page EXCEPT ![v] =
         [method |-> method, task |-> t, due |-> due[t], attempts |-> attempts[t], alone |-> TRUE]]
    /\ UNCHANGED <<people, contacts, table, request, history, unsettled, edits>>

Close(v, saved, t) ==
    page' = [w \in Volunteer |->
        IF w = v THEN NoPage
        ELSE IF saved /\ page[w] # NoPage /\ page[w].task = t
               THEN [page[w] EXCEPT !.alone = FALSE] ELSE page[w]]

(* task.save(): all columns of the row as it was loaded; a row that has    *)
(* been deleted is inserted again, under its id.                           *)
SaveTask(v, until, tries) ==
    LET t == page[v].task
        p == about[t][1]
    IN
    /\ due' = [due EXCEPT ![t] = until]
    /\ attempts' = [attempts EXCEPT ![t] = tries]
    /\ tasks' = tasks \cup {t}
    /\ stale' = IF page[v].alone THEN stale ELSE stale \cup {t}
    /\ IF t \in tasks THEN UNCHANGED <<request, unsettled>>
                      ELSE request' = Overtake(p, None) /\ unsettled' = unsettled \cup {p}
    /\ Close(v, TRUE, t)
    /\ UNCHANGED <<people, contacts, about, last, served>>

(* Mutant: a task is always deferred by some minutes.                      *)
Brief_Always(until) == TRUE

(* defer_briefly_if_needed.                                                *)
Brief(until) == until # "later"

(* The inserted row has the time of the insertion (auto_now_add).  The     *)
(* page of a task whose person is gone fails, and is rolled back.          *)
Show(v) ==
    /\ page[v].method = "GET"
    /\ IF Brief(page[v].due) /\ about[page[v].task][1] \in people
         THEN /\ SaveTask(v, IF page[v].task \in tasks THEN "soon" ELSE "now", page[v].attempts)
              /\ UNCHANGED posts
         ELSE /\ Close(v, FALSE, None)
              /\ UNCHANGED <<people, contacts, table, request, history, unsettled, served>>

Tried(n) == n + 1

(* With the brief deferral before it, a deleted row is inserted by that    *)
(* and updated by this.                                                    *)
Defer(v) ==
    /\ page[v].method = "POST"
    /\ SaveTask(v, IF page[v].task \notin tasks /\ ~ Brief(page[v].due) THEN "now" ELSE "later",
                   Tried(page[v].attempts))
    /\ posts' = [posts EXCEPT ![page[v].task] = @ + 1]

(* Days pass.                                                              *)
Elapse ==
    /\ due' = [t \in Task |-> "now"]
    /\ UNCHANGED <<people, contacts, tasks, about, attempts, last, request, page, history, unsettled, served>>

TasksNext ==
    \/ \E e \in Editor, p \in Person :
          \/ \E k \in Kind : SaveContact(e, p, k) \/ RemoveContact(e, p, k)
          \/ \E k \in Kind \cup {None} : SavePerson(e, p, k)
          \/ DeletePerson(e, p)
    \/ \E e \in Editor : Commit(e)
    \/ \E v \in Volunteer :
          \/ \E t \in tasks, method \in {"GET", "POST"} : Open(v, t, method)
          \/ Show(v) \/ Defer(v)
    \/ Elapse

TasksSpec == TasksInit /\ [][TasksNext]_tasksVars

-----------------------------------------------------------------------------
(* update_for_object: a save of a person that nothing overtakes leaves one *)
(* task for each kind of contact that is missing and no other, whatever    *)
(* was there before, and a deletion leaves none.  It stays so until a      *)
(* contact is removed, two requests on the person overlap, or a page saves *)
(* a task that was deleted while it was open.                              *)
TasksMatch ==
    \A p \in Person \ unsettled, k \in Kind :
        Cardinality(Rows(p, k)) = IF p \in people /\ k \notin contacts[p] THEN 1 ELSE 0

(* do: each deferral counts as an attempt, and none is lost, unless a      *)
(* request saved the task from a copy loaded before another one's save.    *)
AttemptsCounted == \A t \in Task \ stale : attempts[t] = posts[t]

(* A task that was deferred for days is due again when they are over, not  *)
(* because somebody looks at it, except from such an older copy.           *)
DeferralKept ==
    \A t \in tasks : due[t] = "later" /\ due'[t] # "later" /\ t \in tasks'
        => t \in stale' \/ Elapse

(* Both: what a volunteer did with a task is neither lost nor undone.      *)
DeferralsStand == []AttemptsCounted /\ [][DeferralKept]_tasksVars
=============================================================================
