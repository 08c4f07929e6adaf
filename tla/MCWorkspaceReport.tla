-------------------------- MODULE MCWorkspaceReport -------------------------
EXTENDS WorkspaceReport
=============================================================================
