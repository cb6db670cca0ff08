---------------------------- MODULE MCAggregator ----------------------------
EXTENDS Aggregator
CONSTANTS daily, celery
Two == {daily, celery}
Ids == 1..2
=============================================================================
