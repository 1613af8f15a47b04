---------------------------- MODULE MCEmbeddingWorker --------------------------
EXTENDS EmbeddingWorker
================================================================================
