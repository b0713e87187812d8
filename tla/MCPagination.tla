---------------------------- MODULE MCPagination ----------------------------
(* Instances of Pagination for TLC.                                        *)
EXTENDS Pagination

=============================================================================
