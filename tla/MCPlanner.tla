----------------------------- MODULE MCPlanner -----------------------------
(* The inputs over which the planner is checked.                           *)
EXTENDS Planner

\* With and without CUDA, and the empty list, which admits every backend.
MCBackendSets == {{"host", "file", "shm"}, {"host", "file", "shm", "cuda"}, {}}

MCAllowlists == {{}, {"host_pageable", "storage", "device"}}
=============================================================================
