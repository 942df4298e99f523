----------------------------- MODULE MCCatalog -----------------------------
EXTENDS Catalog, TLC
=============================================================================
