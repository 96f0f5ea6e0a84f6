-------------------------- MODULE MCPackageWatcher --------------------------
(* PackageWatcher with one workspace that is always declared and one that    *)
(* comes and goes.                                                           *)
EXTENDS PackageWatcher

CONSTANTS web, lib

MCFixed == {{web}}
MCManifests == {{web}, {web, lib}, Invalid}
=============================================================================
