------------------------------ MODULE MCEngine ------------------------------
(* An instance of parts of the engine that share nothing a property is about:
   a behaviour is one of the part that is chosen at its start, and the others
   rest in their first state. *)
EXTENDS VideoStream, Startup, Presence, Previews, Bursts

VARIABLE part

MCInit ==
    /\ part \in {"stream", "start", "presence", "preview", "burst"}
    /\ StreamInit /\ StartupInit /\ PresenceInit /\ PreviewsInit /\ BurstsInit
    /\ binding = [b \in Bodies |-> CHOOSE f \in Bindings : (f["n1"] = "n1") = (b = "b1")]
    /\ part # "presence" => server = {}
    /\ part # "preview" => ~turned

MCNext ==
    /\ UNCHANGED part
    /\ IF part = "stream" THEN StreamNext ELSE UNCHANGED svars
    /\ IF part = "start" THEN StartupNext ELSE UNCHANGED avars
    /\ IF part = "presence" THEN PresenceNext ELSE UNCHANGED presenceVars
    /\ IF part = "preview" THEN PreviewsNext ELSE UNCHANGED previewVars
    /\ IF part = "burst" THEN BurstsNext ELSE UNCHANGED burstVars

(* The fair specifications of the five, each for its part. *)
MCSpec ==
    /\ MCInit /\ [][MCNext]_<<part, svars, avars, presenceVars, previewVars, burstVars>>
    /\ WF_svars(part = "stream" /\ \E v \in Viewers : ViewerStep(v))
    /\ WF_svars(part = "stream" /\ PartsEnd("worker"))
    /\ SF_svars(part = "stream" /\ WorkEnds)
    /\ WF_avars(part = "start" /\ (Discover \/ Rekey \/ FinishInit))
    /\ WF_presenceVars(part = "presence" /\ AskerStep)
    /\ WF_previewVars(part = "preview" /\ Pull)
    /\ \A r \in Requests : WF_previewVars(part = "preview" /\ GetStep(r))

(* The types of all. *)
MCTypeOK == StreamTypeOK /\ StartupTypeOK /\ PresenceTypeOK /\ PreviewsTypeOK
=============================================================================
