--------------------- MODULE MCFulfillmentPublication ---------------------
(* An instance of FulfillmentPublication for TLC.                          *)
EXTENDS FulfillmentPublication

CONSTANTS timer, request, storefront

MCCallers == {timer, request}

\* One storefront: the timer's sweep and an HTTP settle request step the
\* obligation through one worker object, and so under one worker id.
SharedWorker == [c \in MCCallers |-> storefront]
=============================================================================
