------------------------------ MODULE Workflows ------------------------------
(***************************************************************************)
(* The lifecycles of domain/workflows.py and of warehouse tasks: for every *)
(* state the states that may follow it.  Every store enforces them.        *)
(***************************************************************************)

PurchaseWorkflow ==
    [draft              |-> {"pending_approval", "cancelled"},
     pending_approval   |-> {"approved", "draft", "cancelled"},
     approved           |-> {"sent", "cancelled"},
     sent               |-> {"acknowledged", "cancelled"},
     acknowledged       |-> {"partially_received", "received", "cancelled"},
     partially_received |-> {"partially_received", "received", "supplier_return"},
     received           |-> {"closed", "supplier_return"},
     supplier_return    |-> {"closed"},
     closed             |-> {},
     cancelled          |-> {}]

SalesTransitions ==
    [quote               |-> {"draft", "cancelled"},
     draft               |-> {"confirmed", "cancelled"},
     confirmed           |-> {"partially_allocated", "allocated", "backordered", "dropship", "cancelled"},
     partially_allocated |-> {"partially_allocated", "allocated", "backordered", "cancelled"},
     allocated           |-> {"picking", "cancelled"},
     backordered         |-> {"partially_allocated", "allocated", "cancelled"},
     dropship            |-> {"shipped", "cancelled"},
     picking             |-> {"partially_shipped", "shipped"},
     partially_shipped   |-> {"partially_shipped", "picking", "shipped"},
     shipped             |-> {"delivered"},
     delivered           |-> {"closed"},
     closed              |-> {},
     cancelled           |-> {}]

\* Mutant: a partly shipped order may be backordered again.
SalesWorkflowReopening == [SalesTransitions EXCEPT !.partially_shipped = @ \cup {"backordered"}]

SalesWorkflow == SalesTransitions

ReturnWorkflow ==
    [none        |-> {},
     requested   |-> {"authorized", "rejected"},
     authorized  |-> {"received", "cancelled"},
     received    |-> {"inspected"},
     inspected   |-> {"refund", "replacement", "credit"},
     refund      |-> {"closed"},
     replacement |-> {"closed"},
     credit      |-> {"closed"},
     closed      |-> {},
     rejected    |-> {},
     cancelled   |-> {}]

TaskTransitions ==
    [open        |-> {"assigned", "in_progress", "cancelled"},
     assigned    |-> {"in_progress", "open", "cancelled"},
     in_progress |-> {"completed", "exception", "cancelled"},
     exception   |-> {"open", "in_progress", "cancelled"},
     completed   |-> {},
     cancelled   |-> {}]

-----------------------------------------------------------------------------
(* The targets that the named commands of the routes offer. *)

PurchaseCommands ==
    {"pending_approval", "draft", "approved", "sent", "acknowledged",
     "partially_received", "received", "closed", "cancelled"}

SalesCommands ==
    {"draft", "confirmed", "backordered", "picking", "delivered", "closed", "cancelled"}

ReturnCommands ==
    {"authorized", "rejected", "cancelled", "inspected", "refund", "replacement", "credit", "closed"}

TaskCommands == {"assigned", "in_progress", "completed", "exception", "open", "cancelled"}

=============================================================================
