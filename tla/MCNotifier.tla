----------------------------- MODULE MCNotifier -----------------------------
\* Model-checking instances of Notifier: an order that is spread over two
\* batches, and a batch with two orders.
EXTENDS Notifier, TLC

CONSTANTS b1, b2, b3, o1, o2

MCOrdersOf == (b1 :> {o1}) @@ (b2 :> {o1}) @@ (b3 :> {o1, o2})

==============================================================================
