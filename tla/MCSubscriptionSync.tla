------------------------- MODULE MCSubscriptionSync -------------------------
EXTENDS SubscriptionSync

=============================================================================
