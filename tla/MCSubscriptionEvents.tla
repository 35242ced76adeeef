------------------------ MODULE MCSubscriptionEvents ------------------------
EXTENDS SubscriptionEvents

=============================================================================
