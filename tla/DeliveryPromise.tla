--------------------------- MODULE DeliveryPromise ---------------------------
(***************************************************************************)
(* What the stream orchestrator promises the pipeline runner, without the  *)
(* edges: the streams are wired or wiring is refused, the runner may       *)
(* cancel, at most one edge failure is authoritative, and the verdict that *)
(* Wait returns is given only when no forwarding loop is left.             *)
(*                                                                         *)
(* StreamOrchestrator implements this specification; PipelineRunner is     *)
(* built from its actions.                                                 *)
(***************************************************************************)

VARIABLES
  wire,       \* "idle", "wiring", "open" or "refused": what WireAll did
  cancelled,  \* has the owner's context been cancelled?
  broken,     \* "no", or what failed first: "error", "canceled" for an edge
              \* whose component reported the gRPC code Canceled, "echo" for
              \* an error that the cancellation itself caused
  settled,    \* has every edge closed and every sink acknowledged exactly
              \* what it was sent?
  verdict     \* "pending", or what Wait returned: "nil" or "error"

deliveryVars == <<wire, cancelled, broken, settled, verdict>>

DeliveryTypeOK ==
  /\ wire \in {"idle", "wiring", "open", "refused"}
  /\ cancelled \in BOOLEAN
  /\ broken \in {"no", "error", "canceled", "echo"}
  /\ settled \in BOOLEAN
  /\ verdict \in {"pending", "nil", "error"}

DeliveryInit ==
  /\ wire = "idle"
  /\ cancelled \in BOOLEAN
  /\ broken = "no"
  /\ settled = FALSE
  /\ verdict = "pending"

(***************************************************************************)
(* WireAll starts, and ends one way or the other.  A refusal cancels what  *)
(* was already wired.                                                      *)
(***************************************************************************)
BeginWiring ==
  /\ wire = "idle"
  /\ wire' = "wiring"
  /\ UNCHANGED <<cancelled, broken, settled, verdict>>

Opened ==
  /\ wire = "wiring"
  /\ wire' = "open"
  /\ UNCHANGED <<cancelled, broken, settled, verdict>>

Refused ==
  /\ wire = "wiring"
  /\ wire' = "refused"
  /\ cancelled' = TRUE
  /\ UNCHANGED <<broken, settled, verdict>>

CancelDelivery ==
  /\ cancelled' = TRUE
  /\ UNCHANGED <<wire, broken, settled, verdict>>

(***************************************************************************)
(* The first edge failure.  A failure with the code Canceled is recorded   *)
(* only while the context is alive: afterwards it is taken for the echo of *)
(* the cancellation.                                                       *)
(***************************************************************************)
Break(kind) ==
  /\ wire \in {"wiring", "open", "refused"}
  /\ broken = "no"
  /\ ~settled
  /\ verdict = "pending"
  /\ kind = "canceled" => ~cancelled
  /\ kind = "echo" => cancelled
  /\ broken' = kind
  /\ UNCHANGED <<wire, cancelled, settled, verdict>>

(***************************************************************************)
(* The last edge closes cleanly.                                           *)
(***************************************************************************)
Settle ==
  /\ wire = "open"
  /\ broken = "no"
  /\ ~settled
  /\ verdict = "pending"
  /\ settled' = TRUE
  /\ UNCHANGED <<wire, cancelled, broken, verdict>>

(***************************************************************************)
(* Wait returns.  Without a failure and without a cancellation it may do   *)
(* so only when the delivery has settled.                                  *)
(***************************************************************************)
GiveVerdict ==
  /\ wire \in {"open", "refused"}
  /\ verdict = "pending"
  /\ broken # "no" \/ cancelled \/ settled
  /\ verdict' = IF broken \in {"error", "echo"} THEN "error" ELSE "nil"
  /\ UNCHANGED <<wire, cancelled, broken, settled>>

DeliveryNext ==
  \/ BeginWiring
  \/ Opened
  \/ Refused
  \/ CancelDelivery
  \/ \E kind \in {"error", "canceled", "echo"} : Break(kind)
  \/ Settle
  \/ GiveVerdict

DeliverySpec == DeliveryInit /\ [][DeliveryNext]_deliveryVars

==============================================================================
