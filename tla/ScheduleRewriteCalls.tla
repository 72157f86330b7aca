------------------------ MODULE ScheduleRewriteCalls ------------------------
(* What clients ask a ScheduleRewriteController for: leave to rewrite a key. *)
CONSTANTS Keys, Callbacks,
          KeyOf         \* the key a client schedules a callback for

ASSUME KeyOfAssumption == KeyOf \in [Callbacks -> Keys]
=============================================================================
