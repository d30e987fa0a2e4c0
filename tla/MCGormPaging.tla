----------------------------- MODULE MCGormPaging -----------------------------
EXTENDS GormPaging

CONSTANTS h1, h2, h3

MCHandlers == {h1, h2, h3}
=============================================================================
