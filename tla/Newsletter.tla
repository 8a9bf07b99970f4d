----------------------------- MODULE Newsletter -----------------------------
(***************************************************************************)
(* The newsletter (apps/newsletter): double opt-in of the subscribers, and *)
(* the task that sends one issue in batches to whoever is active.  The     *)
(* queryset has no order and is sliced anew for every batch: the database  *)
(* owes a slice its size, but not the order of the slice before.  Editors  *)
(* have a form for each subscriber and for the issue, and what a form      *)
(* shows may be out of date when it is saved.                              *)
(***************************************************************************)
EXTENDS Naturals, FiniteSets

CONSTANTS Subscribers,  \* addresses
          Sends,        \* deliveries of the task send_newsletter_issue
          BatchSize,    \* batch_size, 50 in the code
          NotSending    \* the delivery has not started, or has ended

Sending == [total : Nat, offset : Nat, batch : SUBSET Subscribers, sent : Nat]

ASSUME NewsletterAssumption ==
    /\ IsFiniteSet(Subscribers)
    /\ BatchSize \in Nat \ {0}
    /\ NotSending \notin Sending

VARIABLES status,       \* Subscriber.status, "none" before there is a row
          confirming,   \* whose row a confirmation has read and not yet saved
          rendered,     \* the status that the open form of a subscriber shows
          consent,      \* the last thing the subscriber or an editor asked for (history)
          overtaken,    \* left while a confirmation or a form was to be saved (history)
          issue,        \* Issue.status
          send,         \* each delivery of the task: its list, offset, batch and count
          ended,        \* deliveries that ran
          mails,        \* how often the issue was mailed to each (history)
          reported,     \* the number sent that the task reported last
          audience,     \* who was active when the first delivery began (history)
          quiet         \* one delivery, no failure, the active ones stayed (history)

peopleVars == <<status, confirming, rendered, consent, overtaken>>
issueVars == <<issue, send, ended, mails, reported, audience>>
newsVars == <<peopleVars, issueVars, quiet>>

\* A bounced address is treated as one that has left, a cancelled issue as a draft.
Statuses == {"none", "pending", "active", "unsubscribed"}
Issues == {"draft", "scheduled", "sent"}

NewsTypeOK ==
    /\ status \in [Subscribers -> Statuses]
    /\ confirming \subseteq Subscribers
    /\ rendered \in [Subscribers -> Statuses \cup {"closed"}]
    /\ consent \in [Subscribers -> BOOLEAN]
    /\ overtaken \in [Subscribers -> BOOLEAN]
    /\ issue \in Issues
    /\ send \in [Sends -> Sending \cup {NotSending}]
    /\ ended \subseteq Sends
    /\ mails \in [Subscribers -> Nat]
    /\ reported \in Nat
    /\ audience \subseteq Subscribers
    /\ quiet \in BOOLEAN

NewsInit ==
    /\ status = [s \in Subscribers |-> "none"]
    /\ confirming = {}
    /\ rendered = [s \in Subscribers |-> "closed"]
    /\ consent = [s \in Subscribers |-> FALSE]
    /\ overtaken = [s \in Subscribers |-> FALSE]
    /\ issue = "draft"
    /\ send = [d \in Sends |-> NotSending]
    /\ ended = {}
    /\ mails = [s \in Subscribers |-> 0]
    /\ reported = 0
    /\ audience = {}
    /\ quiet = TRUE

Active == {s \in Subscribers : status[s] = "active"}
Running(d) == send[d] # NotSending
NobodySends == \A d \in Sends : ~Running(d)

-----------------------------------------------------------------------------
(* Subscribers                                                             *)

\* The status is written.
Writes(s, to) ==
    /\ status' = [status EXCEPT ![s] = to]
    /\ quiet' = (quiet /\ (NobodySends \/ (to = "active" <=> s \in Active)))

\* What the subscriber, or an editor for him, wants now; who leaves is overtaken
\* by what has read the row before and will write it after.
Wants(s, wish) ==
    /\ consent' = [consent EXCEPT ![s] = wish]
    /\ overtaken' = [overtaken EXCEPT ![s] =
                          ~wish /\ (s \in confirming \/ rendered'[s] = "active")]

\* The form, for an address that is not known: the row and the mail with the
\* link.  A known address does not get past the form's validation, because
\* Subscriber.email is unique: the branches of the view that mail the link
\* again, or take back one who left, are not reached.
Subscribes(s) ==
    /\ status[s] = "none"
    /\ Writes(s, "pending")
    /\ UNCHANGED <<confirming, rendered, consent, overtaken, issueVars>>

\* Bound: one confirmation at a time is between its read and its write.
NoVisit == confirming = {}

\* Mutant of ConfirmReads: any link that was ever mailed confirms.
ConfirmReadsAny(s) ==
    /\ status[s] \in {"pending", "unsubscribed"} /\ NoVisit
    /\ confirming' = {s}
    /\ consent' = [consent EXCEPT ![s] = status[s] = "pending"]
    /\ UNCHANGED <<status, rendered, overtaken, issueVars, quiet>>

\* The link of the mail, which stays the same for ever, confirms a pending
\* subscription and nothing else: the row is read ...
ConfirmReads(s) ==
    /\ status[s] = "pending" /\ NoVisit
    /\ confirming' = {s}
    /\ consent' = [consent EXCEPT ![s] = TRUE]
    /\ overtaken' = [overtaken EXCEPT ![s] = FALSE]
    /\ UNCHANGED <<status, rendered, issueVars, quiet>>

\* ... and confirm_subscription saves the status.
ConfirmSaves(s) ==
    /\ s \in confirming
    /\ confirming' = {}
    /\ Writes(s, "active")
    /\ UNCHANGED <<rendered, consent, overtaken, issueVars>>

\* unsubscribe: the POST, or the action of the admin.
Unsubscribes(s) ==
    /\ status[s] # "none"
    /\ Writes(s, "unsubscribed")
    /\ UNCHANGED rendered
    /\ Wants(s, FALSE)
    /\ UNCHANGED <<confirming, issueVars>>

\* activate_subscribers of the admin: one UPDATE of the pending ones.
Activates(s) ==
    /\ status[s] = "pending"
    /\ Writes(s, "active")
    /\ UNCHANGED rendered
    /\ Wants(s, TRUE)
    /\ UNCHANGED <<confirming, issueVars>>

\* SubscriberAdmin's form is opened for a row, or to add one.  Bound: one form at
\* a time, opening another gives up the first.
FormOpens(s) ==
    /\ rendered' = [x \in Subscribers |-> IF x = s THEN status[s] ELSE "closed"]
    /\ UNCHANGED <<status, confirming, consent, overtaken, issueVars, quiet>>

\* The form is saved, with every column it shows: a status that the editor left
\* alone is written as it was when the form was opened.
FormSaves(s) ==
    /\ rendered[s] # "closed" /\ (rendered[s] = "none" => status[s] = "none")
    /\ rendered' = [rendered EXCEPT ![s] = "closed"]
    /\ \E chosen \in Statuses \ {"none"} :
          /\ Writes(s, chosen)
          /\ IF chosen = rendered[s] THEN UNCHANGED <<consent, overtaken>>
             ELSE Wants(s, chosen = "active")
    /\ UNCHANGED <<confirming, issueVars>>

-----------------------------------------------------------------------------
(* The issue                                                               *)

\* schedule_issues of the admin, for drafts, or the form of the issue, which
\* writes whatever status it holds.
IssueIsSet ==
    /\ \E to \in Issues \ {issue} : issue' = to
    /\ quiet' = (quiet /\ NobodySends)
    /\ UNCHANGED <<peopleVars, send, ended, mails, reported, audience>>

\* The task counts the active subscribers; with none the issue stays scheduled.
SendBegins(d) ==
    /\ issue = "scheduled" /\ ~Running(d) /\ d \notin ended
    /\ IF Active = {}
       THEN /\ ended' = ended \cup {d}
            /\ UNCHANGED <<send, audience, quiet>>
       ELSE /\ send' = [send EXCEPT ![d] = [total |-> Cardinality(Active), offset |-> 0,
                                           batch |-> {}, sent |-> 0]]
            /\ audience' = IF audience = {} THEN Active ELSE audience
            /\ quiet' = (quiet /\ audience = {})
            /\ UNCHANGED ended
    /\ UNCHANGED <<peopleVars, issue, mails, reported>>

\* A slice of n rows at most: as many of those who are active now as there are
\* after the offset, in whatever order the database holds them.
Slices(offset, n) ==
    LET rest == IF Cardinality(Active) > offset THEN Cardinality(Active) - offset ELSE 0
    IN {b \in SUBSET Active : Cardinality(b) = IF rest < n THEN rest ELSE n}

\* Mutant of SendLoads: the step of the loop and the slice disagree.
SendLoadsShort(d) ==
    /\ Running(d) /\ send[d].batch = {} /\ send[d].offset < send[d].total
    /\ \E slice \in Slices(send[d].offset, BatchSize - 1) :
          send' = [send EXCEPT ![d] = [send[d] EXCEPT !.offset = @ + BatchSize, !.batch = slice]]
    /\ UNCHANGED <<peopleVars, issue, ended, mails, reported, audience, quiet>>

\* The next slice of those who are active now.
SendLoads(d) ==
    /\ Running(d) /\ send[d].batch = {} /\ send[d].offset < send[d].total
    /\ \E slice \in Slices(send[d].offset, BatchSize) :
          send' = [send EXCEPT ![d] = [send[d] EXCEPT !.offset = @ + BatchSize, !.batch = slice]]
    /\ UNCHANGED <<peopleVars, issue, ended, mails, reported, audience, quiet>>

\* One of the batch is mailed, active or not by now; a mail that fails is counted
\* as an error and not tried again.
SendMails(d) ==
    /\ Running(d)
    /\ \E s \in send[d].batch :
          \/ /\ mails' = [mails EXCEPT ![s] = @ + 1]
             /\ send' = [send EXCEPT ![d] = [send[d] EXCEPT !.batch = @ \ {s}, !.sent = @ + 1]]
             /\ UNCHANGED quiet
          \/ /\ send' = [send EXCEPT ![d] = [send[d] EXCEPT !.batch = @ \ {s}]]
             /\ quiet' = FALSE
             /\ UNCHANGED mails
    /\ UNCHANGED <<peopleVars, issue, ended, reported, audience>>

\* After the last batch the issue is marked as sent, and the number sent reported.
SendEnds(d) ==
    /\ Running(d) /\ send[d].batch = {} /\ send[d].offset >= send[d].total
    /\ send' = [send EXCEPT ![d] = NotSending]
    /\ ended' = ended \cup {d}
    /\ issue' = "sent"
    /\ reported' = send[d].sent
    /\ UNCHANGED <<peopleVars, mails, audience, quiet>>

\* The worker dies: the issue stays scheduled and may be sent again from the
\* beginning.
SendDies(d) ==
    /\ Running(d)
    /\ send' = [send EXCEPT ![d] = NotSending]
    /\ ended' = ended \cup {d}
    /\ quiet' = FALSE
    /\ UNCHANGED <<peopleVars, issue, mails, reported, audience>>

NewsNext ==
    \/ \E s \in Subscribers :
          \/ Subscribes(s) \/ ConfirmReads(s) \/ ConfirmSaves(s)
          \/ Unsubscribes(s) \/ Activates(s) \/ FormOpens(s) \/ FormSaves(s)
    \/ IssueIsSet
    \/ \E d \in Sends :
          SendBegins(d) \/ SendLoads(d) \/ SendMails(d) \/ SendEnds(d) \/ SendDies(d)

NewsSpec == NewsInit /\ [][NewsNext]_newsVars

-----------------------------------------------------------------------------
\* Double opt-in: who is active asked for it, by the link or through an editor,
\* and has not left since, unless he left while his confirmation was being saved
\* or while a form that shows him as active was open.  In particular the old
\* link does not bring back one who left, and nothing else in the site does.
ActiveMeansConsent ==
    \A s \in Subscribers : status[s] = "active" => consent[s] \/ overtaken[s]

\* An issue sent by one delivery, while no mail failed and nobody became or
\* ceased to be active, was mailed as often as there were active subscribers, to
\* none but them, and, when one batch held them, exactly once to each: with
\* more batches, whose rows have no order, one may be mailed in another's place.
QuietSendIsWhole ==
    issue = "sent" /\ quiet =>
        /\ reported = Cardinality(audience)
        /\ \A s \in Subscribers : mails[s] > 0 => s \in audience
        /\ Cardinality(audience) <= BatchSize => \A s \in audience : mails[s] = 1

=============================================================================
