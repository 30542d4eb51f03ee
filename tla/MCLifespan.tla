----------------------------- MODULE MCLifespan -----------------------------
\* TLC instance of Lifespan.
EXTENDS Lifespan
=============================================================================
