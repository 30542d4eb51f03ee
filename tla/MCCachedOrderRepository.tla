---------------------- MODULE MCCachedOrderRepository ----------------------
\* TLC instance of CachedOrderRepository.
EXTENDS CachedOrderRepository
=============================================================================
