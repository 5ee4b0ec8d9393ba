---------------------------- MODULE MCRuleLists ---------------------------
EXTENDS RuleListsProps
=============================================================================
