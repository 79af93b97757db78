---------------------------- MODULE MessageWizard ----------------------------
(***************************************************************************)
(* Writing to members of the National Assembly and to its committees       *)
(* (pombola/writeinpublic): a wizard of three steps, whose answers are     *)
(* kept in the session and sent to the WriteInPublic service when the page *)
(* "done" is asked for.                                                    *)
(*                                                                         *)
(* There is one wizard class for both kinds of recipients, and the storage *)
(* is named after the class: both kinds share the data of a session.  A    *)
(* request loads the session when it begins and saves all of it with its   *)
(* response, so of two requests that overlap the later response wins.      *)
(***************************************************************************)
EXTENDS Naturals, Sequences, SequencesExt, FiniteSets

CONSTANTS
    None,
    Tab,            \* the tabs of the browser
    Kind,           \* the configurations: assembly, committees
    Single,         \* those in which one recipient is chosen
    Id,             \* ids, of persons or of organisations
    Existing,       \* kind -> the ids that have a row
    Recipients,     \* kind -> those with an e-mail address and, for the
                    \* assembly, a position there, at first
    Choosable,        \* what may be chosen in a form: sequences of ids
    MaxRequests, MaxDrafts, MaxOverlaps, MaxDrops, MaxLeaving   \* bounds

Step == {"recipients", "draft", "preview"}

Fresh == [step |-> None, chosen |-> <<>>, chosenAs |-> None, draft |-> 0, captcha |-> FALSE]
Sessions == [step : Step \cup {None}, chosen : Choosable \cup {<<>>} \cup {<<i>> : i \in Id},
             chosenAs : Kind \cup {None}, draft : 0..MaxDrafts, captcha : BOOLEAN]

(* What the browser asks for, and the request with the session as loaded.  *)
Acts == [do : {"get"}, step : Step \cup {"done"}] \cup [do : {"start"}, id : Id]
        \cup [do : {"post"}, step : {"recipients"}, choice : Choosable]
        \cup [do : {"post"}, step : {"draft"}, draft : 1..MaxDrafts]
        \cup [do : {"post"}, step : {"preview"}, solved : BOOLEAN]
Requests == [kind : Kind, act : Acts, data : Sessions, answer : {None, "ok", "error"},
             checked : BOOLEAN, offered : SUBSET Id]  \* history: whom the form offered then

ASSUME WizardAssumption ==
    /\ IsFiniteSet(Tab) /\ Single \subseteq Kind
    /\ None \notin Kind \cup Step \cup {"ok", "error"} \cup Requests
    /\ {MaxRequests, MaxDrafts, MaxOverlaps, MaxDrops, MaxLeaving} \subseteq Nat
    /\ Recipients \in [Kind -> SUBSET Id]
    /\ \A k \in Kind : Recipients[k] \subseteq Existing[k] /\ Existing[k] \subseteq Id
    /\ \A c \in Choosable : c \in Seq(Id) /\ c # <<>>

VARIABLES
    session,    \* the data of the wizard, as stored
    requests,   \* tab -> the request it waits for, or None
    eligible,   \* kind -> the ids its form offers
    sent,       \* messages the service has accepted, in order
    count       \* drafts made, captchas solved, and what is bounded

wizardVars == <<session, requests, eligible, sent, count>>

-----------------------------------------------------------------------------
(* The forms.                                                              *)

(* Whom the stored choice stands for in the form of a kind: a field for    *)
(* one recipient takes the last value.                                     *)
Chosen(k, s) ==
    IF s.chosen = <<>> THEN {}
    ELSE IF k \in Single THEN {Last(s.chosen)}
    ELSE Range(s.chosen)

(* Mutant: what the session holds is not validated again.                  *)
RecipientsValid_Stored(k, s) == s.chosen # <<>>

RecipientsValid(k, s) == s.chosen # <<>> /\ Chosen(k, s) \subseteq eligible[k]

(* All three forms, validated again before the message is sent.  The       *)
(* captcha cannot be, and counts once it was solved.                       *)
FailedStep(k, s) ==
    IF ~RecipientsValid(k, s) THEN "recipients"
    ELSE IF s.draft = 0 THEN "draft"
    ELSE IF ~s.captcha THEN "preview"
    ELSE None

(* storage.reset().                                                        *)
Reset(s) == Fresh

(* GET of a step.                                                          *)
Showing(k, step, s) ==
    IF step \in {"draft", "preview"} /\ ~RecipientsValid(k, s)
      THEN [Reset(s) EXCEPT !.step = "recipients"]
      ELSE [s EXCEPT !.step = step]

(* GET ?person_id= from a page about the recipient.                        *)
StartWith(k, id, s) ==
    IF id \in Existing[k]
      THEN [s EXCEPT !.chosen = <<id>>, !.chosenAs = k, !.step = "draft"]
      ELSE s

(* POST of a form.  In a session without a step it is taken for the first  *)
(* form, in which it is not valid unless it is that form.                  *)
Posted(k, form, s) ==
    LET choice == [s EXCEPT !.chosen = form.choice, !.chosenAs = k, !.step = "draft"]
        here == [s EXCEPT !.step = IF @ = None THEN None ELSE form.step]
    IN  CASE form.step = "recipients" /\ RecipientsValid(k, choice) -> choice
          [] form.step = "draft" /\ s.step # None -> [here EXCEPT !.draft = form.draft, !.step = "preview"]
          [] form.step = "preview" /\ s.step # None /\ (form.solved \/ s.captcha) ->
                [here EXCEPT !.captcha = TRUE]
          [] OTHER -> here

-----------------------------------------------------------------------------
(* Requests.                                                               *)

Overlap == \E t \in Tab : requests[t] # None

Request(t, k, act) ==
    /\ requests[t] = None
    /\ count.requests < MaxRequests
    /\ Overlap => count.overlaps < MaxOverlaps
    /\ requests' = [requests EXCEPT ![t] = [kind |-> k, act |-> act, data |-> session, answer |-> None,
                                            checked |-> FALSE, offered |-> eligible[k]]]
    /\ count' = [count EXCEPT !.requests = @ + 1,
                    !.overlaps = IF Overlap THEN @ + 1 ELSE @,
                    !.drafts = IF act.do = "post" /\ act.step = "draft" THEN @ + 1 ELSE @,
                    !.captchas = IF act.do = "post" /\ act.step = "preview" /\ act.solved
                                 THEN @ + 1 ELSE @]
    /\ UNCHANGED <<session, eligible, sent>>

Get(t, k) ==
    \/ \E step \in Step \cup {"done"} : Request(t, k, [do |-> "get", step |-> step])
    \/ \E id \in Id : Request(t, k, [do |-> "start", id |-> id])

(* Every draft is another text.                                            *)
Post(t, k) ==
    \/ \E c \in Choosable : Request(t, k, [do |-> "post", step |-> "recipients", choice |-> c])
    \/ /\ count.drafts < MaxDrafts
       /\ Request(t, k, [do |-> "post", step |-> "draft", draft |-> count.drafts + 1])
    \/ \E solved \in BOOLEAN : Request(t, k, [do |-> "post", step |-> "preview", solved |-> solved])

Finishes(r) == r # None /\ r.act.do = "get" /\ r.act.step = "done" /\ r.answer = None
Valid(r) == Finishes(r) /\ ~r.checked /\ FailedStep(r.kind, r.data) = None
Sends(r) == Finishes(r) /\ r.checked

Message(r) == [kind |-> r.kind, to |-> Chosen(r.kind, r.data), chosenAs |-> r.data.chosenAs,
               draft |-> r.data.draft, offered |-> r.offered]

(* The forms are validated again, which reads the recipients there are;    *)
(* the message is sent after that.                                         *)
Validate(t) ==
    /\ Valid(requests[t])
    /\ requests' = [requests EXCEPT ![t].checked = TRUE]
    /\ UNCHANGED <<session, eligible, sent, count>>

(* client.create_message: the service accepts the message and says so, or  *)
(* refuses it; or the connection fails, before or after.                   *)
CreateMessage(t) ==
    /\ Sends(requests[t])
    /\ \/ /\ sent' = Append(sent, Message(requests[t]))
          /\ \E answer \in {"ok", "error"} : requests' = [requests EXCEPT ![t].answer = answer]
       \/ /\ requests' = [requests EXCEPT ![t].answer = "error"]
          /\ UNCHANGED sent
    /\ UNCHANGED <<session, eligible, count>>

(* Mutant: after an error the answers are kept, to try again.              *)
After_Again(r) == IF r.answer = "ok" THEN Reset(r.data) ELSE r.data

(* What a request that was answered leaves in the session.                 *)
After(r) == Reset(r.data)

Result(r) ==
    CASE r.act.do = "start" -> StartWith(r.kind, r.act.id, r.data)
      [] r.act.do = "post" -> Posted(r.kind, r.act, r.data)
      [] r.act.do = "get" /\ r.act.step # "done" -> Showing(r.kind, r.act.step, r.data)
      [] r.answer # None -> After(r)
      [] OTHER -> [r.data EXCEPT !.step = FailedStep(r.kind, r.data)]

Respond(t) ==
    /\ requests[t] # None
    /\ ~Valid(requests[t]) /\ ~Sends(requests[t])
    /\ session' = Result(requests[t])
    /\ requests' = [requests EXCEPT ![t] = None]
    /\ UNCHANGED <<eligible, sent, count>>

(* A request that ends without a response saves no session.                *)
Unsaved(t) ==
    /\ requests[t] # None
    /\ count.drops < MaxDrops
    /\ requests' = [requests EXCEPT ![t] = None]
    /\ count' = [count EXCEPT !.drops = @ + 1]
    /\ UNCHANGED <<session, eligible, sent>>

(* The worker is killed, as it may be when the service takes too long.     *)
Drop(t) == Unsaved(t)

(* What the service answers when it has the message is not JSON, or has no *)
(* id: nobody catches the exception, and the session is not saved with a   *)
(* response that is an error of the server.                                *)
Raise(t) == requests[t] # None /\ requests[t].answer = "ok" /\ Unsaved(t)

(* A member leaves, or an address is deleted.                              *)
Leave ==
    /\ count.leaving < MaxLeaving
    /\ \E k \in Kind : \E i \in eligible[k] : eligible' = [eligible EXCEPT ![k] = @ \ {i}]
    /\ count' = [count EXCEPT !.leaving = @ + 1]
    /\ UNCHANGED <<session, requests, sent>>

WizardInit ==
    /\ session = Fresh
    /\ requests = [t \in Tab |-> None]
    /\ eligible = Recipients
    /\ sent = <<>>
    /\ count = [requests |-> 0, drafts |-> 0, captchas |-> 0, overlaps |-> 0, drops |-> 0, leaving |-> 0]

WizardNext ==
    \/ \E t \in Tab, k \in Kind : Get(t, k) \/ Post(t, k)
    \/ \E t \in Tab : Validate(t) \/ CreateMessage(t) \/ Respond(t) \/ Drop(t) \/ Raise(t)
    \/ Leave

WizardSpec == WizardInit /\ [][WizardNext]_wizardVars

-----------------------------------------------------------------------------
(* The session holds what the forms may have stored.                       *)
WizardTypeOK ==
    /\ session \in Sessions
    /\ requests \in [Tab -> Requests \cup {None}]
    /\ eligible \in [Kind -> SUBSET Id]
    /\ session.chosen = <<>> <=> session.chosenAs = None

Times(d) == Cardinality({n \in DOMAIN sent : sent[n].draft = d})

(* A draft is sent once, however often the page "done" is loaded and       *)
(* whether the service accepts it or not; again only for a request that    *)
(* overlapped another, whose response may bring back a session that was    *)
(* reset, or one that left the session as it was when the service had the  *)
(* message: it was killed, or could not read the answer.                   *)
OncePerDraft ==
    \A d \in 1..MaxDrafts : Times(d) <= 1 + count.overlaps + count.drops

(* And in the same way every message has cost a captcha, although it is    *)
(* not asked for again once it has been solved in a session.               *)
CaptchaEach == Len(sent) <= count.captchas + count.overlaps + count.drops

(* Both: a message that was sent is paid for, and is not sent again.       *)
NoneTwice == WizardTypeOK /\ OncePerDraft /\ CaptchaEach

(* Nobody is written to whom the form of the wizard that sends did not     *)
(* offer when its page "done" was asked for: not who has left since they   *)
(* were chosen, in whichever tab, nor who was chosen in the wizard of the  *)
(* other kind and has no counterpart of that number here.                  *)
NoStranger == \A n \in DOMAIN sent : sent[n].to \subseteq sent[n].offered

(* A message goes to those who were chosen in the wizard that sends it.    *)
ChosenHere == \A n \in DOMAIN sent : sent[n].chosenAs = sent[n].kind
=============================================================================
