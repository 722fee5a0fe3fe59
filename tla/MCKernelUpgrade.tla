--------------------------- MODULE MCKernelUpgrade ---------------------------
EXTENDS KernelUpgrade
===============================================================================
