-------------------------------- MODULE MCRm --------------------------------
\* Rm for TLC; the constants are model values of the cfg.
EXTENDS Rm
=============================================================================
