---------------------------- MODULE EventLifecycle ----------------------------
(* What an event promises its visitors, without stands, requests or retries: *)
(* the life documented for the publishing and archiving sagas.               *)
EXTENDS Naturals

VARIABLES
    status,     \* of the event
    public,     \* visitors see it
    edition     \* how often its content changed

lifecycle == <<status, public, edition>>

Init == status = "draft" /\ ~public /\ edition = 0

\* Editing hides the event until it is published again.
Edit ==
    /\ status \in {"draft", "published"}
    /\ status' = "draft"
    /\ public' = FALSE
    /\ edition' = edition + 1

Move(from, to) ==
    /\ status \in from
    /\ status' = to
    /\ public' = FALSE
    /\ UNCHANGED edition

Publish ==
    /\ status = "publishing"
    /\ status' = "published"
    /\ public' \in BOOLEAN
    /\ UNCHANGED edition

Next ==
    \/ Edit
    \/ Move({"draft", "publish_failed", "published"}, "publishing")
    \/ Move({"publishing"}, "publish_failed")
    \/ Publish
    \/ Move({"draft", "publishing", "publish_failed", "published"}, "archiving")
    \/ Move({"archiving"}, "archived")

Spec == Init /\ [][Next]_lifecycle
=============================================================================
