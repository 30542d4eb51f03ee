-------------------------- MODULE MCPaymentGateway --------------------------
\* TLC instance of PaymentGateway.
EXTENDS PaymentGateway
=============================================================================
