-------------------------------- MODULE MCApi --------------------------------
(* The three requests that the API serves, of which a run has one kind:    *)
(* uploads, a search while embed stages go on, or a question.  They share  *)
(* a process but no state, so that nothing is gained by interleaving them; *)
(* the others stay where they start.                                       *)
(*                                                                         *)
(* Upload has three requests for two contents and two names: two can race  *)
(* for the same bytes while a third repeats one of them or sends others.   *)
(* Retrieval has two embed stages, both of document 1, which is chunked    *)
(* again once, or one of document 2: the index can hold points of both     *)
(* versions.  All processes use the wider model, or all but one.  There is *)
(* one chunk for each version; more would only make the lists longer.      *)
(* A question is MCEventStream's.                                          *)
EXTENDS Upload, Retrieval, MCEventStream

CONSTANTS e1, e2

TwoStages == {e1, e2}
SomeSettings ==
  {m \in [TwoStages \cup {Api} -> Widths] :
     m[e1] = Max(Widths) /\ Max(Widths) \in {m[e2], m[Api]}}
SomeJobs == {d \in [TwoStages -> Documents] : d[e1] = 1 /\ d[e2] # 3}
OnlyTheFirst == [d \in Documents |-> IF d = 1 THEN 2 ELSE 1]

VARIABLE served   \* the kind of request

apivars == <<served, uvars, rvars, svars>>

(* Requests are alike: which of them carries which file does not matter. *)
Uploads == SetToSeq([content : Contents \cup Unusable, extension : Extensions])
InOneOrder ==
  LET order == SetToSeq(Requests)
      number(k) == CHOOSE n \in DOMAIN Uploads : Uploads[n] = file[order[k]]
  IN \A k \in 1 .. Len(order) - 1 : number(k) <= number(k + 1)

(* Where what is not served stays. *)
NoUpload ==
  /\ file = [r \in Requests |-> CHOOSE f \in [content : Contents, extension : Extensions] : TRUE]
  /\ UploadInit
NoSearch ==
  /\ model = [p \in TwoStages \cup {Api} |-> Max(Widths)]
  /\ job = [e \in TwoStages |-> 1]
  /\ collection = 0
  /\ scope = {}
  /\ RetrievalInit
NoQuestion ==
  /\ endpoint = "ask" /\ shown = 0 /\ provider = "none"
  /\ StreamInit

(* A search has a scope only when all models are the wider one, and some   *)
(* document in it is embedded.                                             *)
ScopedOrRaced ==
  \/ scope = {}
  \/ (\A p \in DOMAIN model : model[p] = Max(Widths)) /\ job[e2] \in scope

ApiInit ==
  \/ served = "upload" /\ UploadInit /\ InOneOrder /\ NoSearch /\ NoQuestion
  \/ served = "search" /\ NoUpload /\ RetrievalInit /\ ScopedOrRaced /\ NoQuestion
  \/ served = "question" /\ NoUpload /\ NoSearch /\ StreamInit

ApiNext ==
  \/ served = "upload" /\ UploadNext /\ UNCHANGED <<served, rvars, svars>>
  \/ served = "search" /\ RetrievalNext /\ UNCHANGED <<served, uvars, svars>>
  \/ served = "question" /\ StreamNext /\ UNCHANGED <<served, uvars, rvars>>

(* FairUpload's fairness. *)
ApiFairness ==
  LET OfUploads(A) == served = "upload" /\ A /\ UNCHANGED <<served, rvars, svars>> IN
  /\ \A r \in Requests : WF_uvars(OfUploads(Serve(r)))
  /\ \A c \in Contents : WF_uvars(OfUploads(take(c)))

FairApi == ApiInit /\ [][ApiNext]_apivars /\ ApiFairness
=============================================================================
