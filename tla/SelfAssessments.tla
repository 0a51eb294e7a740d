---- MODULE SelfAssessments ----
(***************************************************************************)
(* A control self-assessment (iams/csa.py): one response to a              *)
(* questionnaire, its answers and the challenges auditors open on them.    *)
(* Every handler loads its rows, checks them and writes them later; no row *)
(* is locked, so a handler may write over what it never saw.               *)
(***************************************************************************)
EXTENDS Integers, FiniteSets, Functions

CONSTANTS
  Assessor,   \* processes serving requests
  Questions,  \* of the questionnaire
  Worth,      \* what an answer may earn of its weight, as a percentage
  Threshold,  \* weak_threshold, a percentage
  NoAnswer, NoScoreYet

Statuses == {"draft", "submitted", "under_review", "closed"}
Challenges == {"", "open", "resolved"}

ASSUME SelfAssessmentAssumption ==
  /\ IsFiniteSet(Questions) /\ Questions # {} /\ Threshold \in 0..100
  /\ Worth \subseteq 0..100
  /\ NoScoreYet \notin Int
  /\ NoAnswer \notin Questions /\ NoAnswer \notin [worth : Worth, challenge : Challenges]

VARIABLES
  response,       \* [status, score, weak]
  answers,        \* the answer to each question, or NoAnswer
  published,      \* the questionnaire is active
  handling,       \* what each process has loaded
  spoiled         \* history: a handler wrote over what it had not seen, or a
                  \* challenged answer came from or went to another response

csaVars == <<response, answers, published, handling, spoiled>>

Answer == [worth : Worth, challenge : Challenges]
NotHandling == [kind |-> "none"]
Kinds == {"submit", "open", "resolve", "settle", "leave", "close", "patch", "edit"}

CsaTypeOK ==
  /\ response \in [status : Statuses, score : 0..100 \union {NoScoreYet}, weak : BOOLEAN]
  /\ answers \in [Questions -> Answer \union {NoAnswer}]
  /\ published \in BOOLEAN /\ spoiled \in BOOLEAN
  /\ \A w \in Assessor : handling[w] # NotHandling =>
       /\ handling[w].kind \in Kinds /\ handling[w].saw.status \in Statuses
       /\ handling[w].answer \in Answer \union {NoAnswer}

CsaInit ==
  /\ response = [status |-> "draft", score |-> NoScoreYet, weak |-> FALSE]
  /\ answers = [q \in Questions |-> NoAnswer]
  /\ published = FALSE /\ spoiled = FALSE
  /\ handling = [w \in Assessor |-> NotHandling]

Answered == {q \in Questions : answers[q] # NoAnswer}
Open == {q \in Answered : answers[q].challenge = "open"}

\* compute_scores: an unanswered question earns nothing (equal weights).
Score == SumFunction([q \in Answered |-> answers[q].worth]) \div Cardinality(Questions)

----
\* What a handler has loaded when it starts to write; q is NoAnswer when it is
\* not about one answer.  fresh: nobody has committed a write since.
Load(w, kind, q) ==
  /\ handling[w] = NotHandling
  /\ handling' = [handling EXCEPT ![w] =
       [kind |-> kind, question |-> q, saw |-> response, fresh |-> TRUE,
        score |-> IF kind = "submit" THEN Score ELSE NoScoreYet,
        answer |-> IF kind = "edit" THEN answers[q] ELSE NoAnswer]]
  /\ UNCHANGED <<response, answers, published, spoiled>>

Doing(w, kind) ==
  /\ handling[w].kind = kind
  /\ handling[w].question # NoAnswer => answers[handling[w].question] # NoAnswer
Stale(h) == IF h = NotHandling THEN h ELSE [h EXCEPT !.fresh = FALSE]

\* The handler of w commits: the response, and challenge of the answer it is about.
Write(w, newResponse) ==
  /\ response' = newResponse
  /\ spoiled' = (spoiled \/ ~handling[w].fresh)
  /\ handling' = [x \in Assessor |-> IF x = w THEN NotHandling ELSE Stale(handling[x])]
  /\ UNCHANGED published
Challenge(w, challenge) ==
  answers' = [answers EXCEPT ![handling[w].question].challenge = challenge]

\* submit_response
BeginSubmit(w) ==
  /\ response.status = "draft" /\ published /\ Answered # {}
  /\ Load(w, "submit", NoAnswer)
CommitSubmit(w) ==
  /\ Doing(w, "submit")
  /\ Write(w, [status |-> "submitted", score |-> handling[w].score, weak |-> handling[w].score < Threshold])
  /\ UNCHANGED answers

\* open_challenge
BeginOpen(w, q) ==
  /\ q \in Answered /\ response.status \in {"submitted", "under_review"}
  /\ Load(w, "open", q)
CommitOpen(w) ==
  /\ Doing(w, "open")
  /\ Write(w, IF handling[w].saw.status = "under_review" THEN response
              ELSE [response EXCEPT !.status = "under_review"])
  /\ Challenge(w, "open")

\* resolve_challenge: the answer is written, then the open challenges of the
\* response are looked up (its own write among them), then the status is written.
BeginResolve(w, q) == q \in Open /\ Load(w, "resolve", q)
LookForOpen(w) ==
  /\ Doing(w, "resolve")
  /\ LET h == handling[w]
         settled == Open \subseteq {h.question} /\ h.saw.status = "under_review"
     IN handling' = [handling EXCEPT ![w].kind = IF settled THEN "settle" ELSE "leave",
                                     ![w].fresh = h.fresh \/ h.saw = response]
  /\ UNCHANGED <<response, answers, published, spoiled>>
CommitResolve(w) ==
  /\ \/ Doing(w, "settle") /\ Write(w, [response EXCEPT !.status = "submitted"])
     \/ Doing(w, "leave") /\ Write(w, response)
  /\ Challenge(w, "resolved")

\* Faulty variant: open challenges do not keep a response from being closed.
BeginCloseAnyway(w) == response.status # "draft" /\ Load(w, "close", NoAnswer)

\* close_response
BeginClose(w) == response.status # "draft" /\ Open = {} /\ Load(w, "close", NoAnswer)
CommitClose(w) ==
  /\ Doing(w, "close") /\ Write(w, [response EXCEPT !.status = "closed"])
  /\ UNCHANGED answers

\* PATCH of the response: every column is saved as it was loaded.
BeginPatch(w) == Load(w, "patch", NoAnswer)
CommitPatch(w) == Doing(w, "patch") /\ Write(w, handling[w].saw) /\ UNCHANGED answers

\* PATCH of an answer, whatever the status of the response: its challenge is
\* saved as it was loaded.
BeginEdit(w, q) == q \in Answered /\ Load(w, "edit", q)
CommitEdit(w, worth) ==
  /\ Doing(w, "edit") /\ Write(w, response)
  /\ answers' = [answers EXCEPT ![handling[w].question] = [handling[w].answer EXCEPT !.worth = worth]]

\* The row is gone, or the client is: nothing is written.
GiveUp(w) ==
  /\ handling[w] # NotHandling
  /\ handling' = [handling EXCEPT ![w] = NotHandling]
  /\ UNCHANGED <<response, answers, published, spoiled>>

\* POST, DELETE and PATCH of the responseId of answers: a row comes (one per
\* question), or goes, with the challenge it has.
PutAnswer(q, answer) ==
  /\ answer # answers[q] /\ (answers[q] = NoAnswer \/ answer = NoAnswer)
  /\ answers' = [answers EXCEPT ![q] = answer]
  /\ spoiled' = (spoiled \/ \E a \in {answers[q], answer} \ {NoAnswer} : a.challenge = "open")
  /\ handling' = [x \in Assessor |-> Stale(handling[x])]
  /\ UNCHANGED <<response, published>>

\* PATCH of the questionnaire: it is activated, archived, or drafted again.
SetQuestionnaire ==
  /\ published' = ~published
  /\ UNCHANGED <<response, answers, handling, spoiled>>

CsaNext ==
  \/ \E w \in Assessor :
       \/ BeginSubmit(w) \/ BeginClose(w) \/ BeginPatch(w)
       \/ \E q \in Questions : BeginOpen(w, q) \/ BeginResolve(w, q) \/ BeginEdit(w, q)
       \/ CommitSubmit(w) \/ CommitOpen(w) \/ LookForOpen(w) \/ CommitResolve(w)
       \/ CommitClose(w) \/ CommitPatch(w) \/ (\E worth \in Worth : CommitEdit(w, worth)) \/ GiveUp(w)
  \/ \E q \in Questions, answer \in Answer \union {NoAnswer} : PutAnswer(q, answer)
  \/ SetQuestionnaire

CsaSpec == CsaInit /\ [][CsaNext]_csaVars

----
\* A response is under review exactly while a challenge is open on one of its
\* answers, so none is closed over an open challenge and none stays under review
\* when the last challenge is resolved; as long as no handler wrote over what it
\* had not seen.  Scored once, it keeps that score and the weak flag it implies.
ReviewFollowsChallenges ==
  ~spoiled =>
    /\ response.status = "under_review" <=> Open # {}
    /\ response.status = "draft" <=> response.score = NoScoreYet
    /\ response.weak <=> response.score # NoScoreYet /\ response.score < Threshold
====
