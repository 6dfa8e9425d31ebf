------------------------------ MODULE MCLabServer ------------------------------
\* One custom profile and one text for it, one stream next to the event loop.
EXTENDS LabServer
===============================================================================
