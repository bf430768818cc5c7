------------------------------ MODULE MCAdminApp ------------------------------
\* Instance of AdminApp for TLC.
EXTENDS AdminApp

MCStartStatuses == {"CLOSED"}
=============================================================================
