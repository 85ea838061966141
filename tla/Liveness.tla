------------------------------ MODULE Liveness ------------------------------
(***************************************************************************)
(* What the answer of a portal says of a vacancy.  Without a model of      *)
(* language: the public interface of the portal where there is one, and    *)
(* otherwise the page.  Any doubt (a refused address, a failure of the     *)
(* network, a page cut short, signals that disagree) is "unknown".         *)
(*                                                                         *)
(* A reply records what the check reads of it: whether each address it was *)
(* led through is public, whether it ended in time, its HTTP status,       *)
(* whether it was cut, whether it ends in a list of vacancies, whether it  *)
(* shows a closing marker, the deadlines of the postings of the page       *)
(* ("past", "ahead", "none"), and, of a board, whether it was read, names  *)
(* the vacancy and names any.                                              *)
(***************************************************************************)
EXTENDS Integers, Sequences

CONSTANTS MaxRedirects

\* No address but public ones is asked; a late or long answer is a failure.
Reached(reply) ==
  /\ \A k \in DOMAIN reply.public : reply.public[k]
  /\ Len(reply.public) <= MaxRedirects + 1
  /\ reply.ended

Redirected(reply) == Len(reply.public) > 1

\* Greenhouse and Lever: the interface of the portal has the vacancy, or not.
ByStatus(reply) ==
  IF ~Reached(reply) \/ Redirected(reply) THEN "unknown"
  ELSE IF reply.status = 404 THEN "closed"
  ELSE IF reply.status = 200 THEN "open" ELSE "unknown"

\* Ashby: the whole board is read; an empty one may be a failure.
ByBoard(reply) ==
  IF \/ ~Reached(reply) \/ Redirected(reply) \/ reply.status # 200 \/ reply.cut
     \/ ~reply.board \/ (~reply.listed /\ reply.empty)
  THEN "unknown"
  ELSE IF reply.listed THEN "open" ELSE "closed"

Expired(reply) == reply.deadlines \ {"none"} = {"past"}

PostingOpen(reply) == reply.deadlines # {} /\ ~Expired(reply)

\* Any other portal, and Gupy: the page itself.
ByPage(reply) ==
  IF ~Reached(reply) THEN "unknown"
  ELSE IF reply.status \in {404, 410} THEN "closed"
  ELSE IF reply.status # 200 \/ (Redirected(reply) /\ reply.listing) THEN "unknown"
  ELSE IF Expired(reply) THEN "closed"
  ELSE IF reply.marker /\ PostingOpen(reply) THEN "unknown"
  ELSE IF reply.marker THEN "closed"
  ELSE IF PostingOpen(reply) /\ ~reply.cut THEN "open" ELSE "unknown"

CheckJobLiveness(portal, reply) ==
  CASE portal = "status" -> ByStatus(reply)
    [] portal = "board"  -> ByBoard(reply)
    [] portal = "page"   -> ByPage(reply)
=============================================================================
