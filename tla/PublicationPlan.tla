--------------------------- MODULE PublicationPlan ---------------------------
(***************************************************************************)
(* What one review publication consists of (packages/platform-gitlab/src/  *)
(* review/publisher.ts): a summary note, which also carries the findings   *)
(* that have no valid position in the diff, and one inline discussion per  *)
(* other finding, with a fallback note when GitLab refuses the position.   *)
(* Every comment carries markers, and a marker that is in the set of       *)
(* completed markers is not posted again.                                  *)
(***************************************************************************)

CONSTANTS
  Finding,     \* findings of the stage result
  Inline,      \* those whose position in the diff is valid
  NoFinding

ASSUME FindingAssumption == Inline \subseteq Finding /\ NoFinding \notin Finding

Summary == [kind |-> "summary", finding |-> NoFinding]
InlineMarker(f) == [kind |-> "inline", finding |-> f]
FallbackMarker(f) == [kind |-> "fallback", finding |-> f]

Marker ==
  {Summary} \cup {InlineMarker(f) : f \in Finding} \cup {FallbackMarker(f) : f \in Finding}

(* Findings reported in the body of the summary. *)
Deferred == Finding \ Inline

(* The markers in the body of the comment that an operation posts; an      *)
(* operation is named by the first of them.                                *)
Carried(m) ==
  IF m = Summary THEN {Summary} \cup {FallbackMarker(f) : f \in Deferred} ELSE {m}

(* Mutant: a fallback note does not count as a report of its finding.      *)
ReportedInlineOnly(done, f) == InlineMarker(f) \in done

Reported(done, f) == InlineMarker(f) \in done \/ FallbackMarker(f) \in done

(* The comments publishGitLabReviewResult may post next: the summary; when *)
(* it is there already, its findings one by one; then the inline ones.     *)
NextOperations(done) ==
  LET fallbacks == {FallbackMarker(f) : f \in {x \in Deferred : FallbackMarker(x) \notin done}}
      inlines == {InlineMarker(f) : f \in {x \in Inline : ~Reported(done, x)}}
  IN  IF Summary \notin done THEN {Summary}
      ELSE IF fallbacks # {} THEN fallbacks
      ELSE inlines

(* isGitLabReviewPublicationComplete *)
PublicationComplete(done) == Summary \in done /\ \A f \in Finding : Reported(done, f)

=============================================================================
