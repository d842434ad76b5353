------------------------------ MODULE MCUiLink ------------------------------
EXTENDS UiLink
=============================================================================
